---- MODULE Spec2Model ----
(***************************************************************************)
(* Container State & Port-Remapping Engine of dynamic-port-mapper          *)
(* (src/container_store.go).                                               *)
(*                                                                         *)
(* The model has several parts:                                            *)
(*   - the container runtime (docker): the containers that exist, whether  *)
(*     they run, their host-port bindings and the sentinel label;          *)
(*   - the ContainerStore: its three maps, guarded by one RWMutex.  Every  *)
(*     critical section of the source contains no blocking call, so each   *)
(*     critical section is one atomic step here; the loop of               *)
(*     refreshContainers over the listed containers is one step too;       *)
(*   - the per-event worker goroutines started by processEvents, each one  *)
(*     a record with a program counter and the locals of its handler.      *)
(*                                                                         *)
(* Ports are scaled: the dynamic range [portRangeMin, portRangeMax] is     *)
(* [3,5] instead of [10000,65000]; host ports 1 and 2 lie below it.  A     *)
(* container has at most one host binding per "<container-port>/<proto>"   *)
(* key.                                                                    *)
(***************************************************************************)
EXTENDS Integers, FiniteSets, Sequences, TLC

\* ---- bounds ----
MaxIds == 3          \* container ids the runtime hands out
MaxWorkers == 2      \* handler goroutines in flight at once
MaxEnv == 2          \* actions of the outside user: run, kill signal, restart;
                     \* a container that runs before the supervisor starts is one
MaxUserRuns == 1     \* containers the outside user starts

\* ---- configured dynamic range (scaled) ----
portRangeMin == 3
portRangeMax == 5

Ids == 1..MaxIds
Workers == 1..MaxWorkers

\* "<container-port>/<proto>" keys of HostConfig.PortBindings
Keys == {<<80, "tcp">>, <<53, "udp">>}
NoKey == <<0, "">>
Protocol(k) == k[2]

\* a binding table: key -> host port, 0 = key not bound
NoPorts == [k \in Keys |-> 0]
BoundKeys(b) == {k \in Keys : b[k] # 0}

\* HostPort "" of an ephemeral binding in HostConfig.PortBindings
EmptyHostPort == -1

EmptyMap == [i \in {} |-> 0]
Without(f, i) == [j \in (DOMAIN f) \ {i} |-> f[j]]

VARIABLES
    docker,                \* runtime: id -> [state, ports, eph, label]
    nextId,                \* next id docker run hands out
    events,                \* events emitted by the runtime, handler not yet running
    containers,            \* s.containers: id -> PortMappings
    portMappings,          \* s.portMappings: id -> key -> host port
    processedContainers,   \* s.processedContainers (ids mapped to true)
    workers,               \* handler goroutines
    envSteps,              \* outside-user actions taken so far
    origin,                \* history: id -> who started the container
    parent,                \* history: replacement id -> id it replaced
    reloc,                 \* history: replacement id -> [key, old, new] of its relocation
    touched,               \* history: ids the supervisor stopped, killed or removed
    sticky,                \* history: ids for which isContainerProcessed returned true
                           \*          and that have been listed ever since
    refed,                 \* history: ids whose start event was delivered a second time
    hist,                  \* history of the listings: [on, order, stale, deleted];
                           \*   kept only when on is TRUE
    mu,                    \* s.mu: [writer, readers], the tasks holding the RWMutex
    lpc,                   \* task -> index of its next instruction (lock-level view)
    launch,                \* one call of remapContainerPort: [pc, info, key, newHostPort,
                           \*   createArgs] (call-level view)
    alloc,                 \* one call of allocateRandomPort: [pc, busy, draws, result]
    rng,                   \* one draw under a configured range: [pc, min, max, port]
    compose,               \* one run of the compose subcommand: [pc, descriptor, busy,
                           \*   visited, remappings, emitted, pending, rewrites,
                           \*   marked]; rewrites and marked are history: how often
                           \*   an entry was rewritten, which entries were found in use
    view,                  \* the group view: [pc, store, all, projects]; store is
                           \*   s.containers with the fields the view reads
    recreate,              \* the runtime calls of one remapContainerPort: [pc, key,
                           \*   newHostPort, issued, result, missing]
    main,                  \* the run of main: [pc, mode, minPort, maxPort, stores,
                           \*   cts, next, used, dispatched, issued]; used,
                           \*   dispatched and issued are history
    proc,                  \* the supervisor process: "running" or "exited"
    sub                    \* the event subscription: [listener, eventCmd, reader,
                           \*   waiter, done, pipe, handled]

vars == <<docker, nextId, events, containers, portMappings, processedContainers,
          workers, envSteps, origin, parent, reloc, touched, sticky, refed, hist,
          mu, lpc,
          launch, alloc, rng, compose, view, recreate, main, proc, sub>>

\* the variables of the store-level view and of the lock-level view
storeVars == <<docker, nextId, events, containers, portMappings, processedContainers,
               workers, envSteps, origin, parent, reloc, touched, sticky, refed,
               hist>>
lockVars == <<mu, lpc>>
\* the variables of the call-level view
callVars == <<launch, alloc, rng, compose, view, recreate>>
\* the process and its event subscription
procVars == <<proc, sub>>

\* ---------------------------------------------------------------------------
\* Runtime
\* ---------------------------------------------------------------------------
Gone == [state |-> "gone", ports |-> NoPorts, eph |-> FALSE, label |-> FALSE]

Exists(i) == docker[i].state # "gone"
Running(i) == docker[i].state = "running"

\* docker ps: the running containers and their Ports column
DockerPs == [i \in {j \in Ids : Running(j)} |-> docker[i].ports]

\* HostConfig.PortBindings as docker inspect prints it: an ephemeral binding
\* has HostPort ""
HostConfigPorts(i) ==
    [k \in Keys |-> IF docker[i].ports[k] = 0 THEN 0
                    ELSE IF docker[i].eph THEN EmptyHostPort
                    ELSE docker[i].ports[k]]

\* host ports docker picks for an ephemeral binding
EphemeralPort1 == portRangeMin + 1
EphemeralPort2 == portRangeMax
EphemeralPorts == {EphemeralPort1, EphemeralPort2}

\* a binding table with the given host ports for 80/tcp and 53/udp
Bind(t, u) == [k \in Keys |-> IF k = <<80, "tcp">> THEN t ELSE u]

\* what the outside user may run with fixed host ports: port 1 lies below the
\* dynamic range, portRangeMin inside it
FixedSpecs == {Bind(1, 0), Bind(portRangeMin, 0), Bind(1, 1), Bind(portRangeMin, 1),
               Bind(0, 0)}

\* containers that may run before the supervisor starts
InitialSpecs == {Bind(1, 0), Bind(portRangeMin, 0), Bind(0, portRangeMin),
                 Bind(EphemeralPort1, 0)}

\* ---------------------------------------------------------------------------
\* Pure functions of the store
\* ---------------------------------------------------------------------------
InRange(p) == p >= portRangeMin /\ p <= portRangeMax

NoMapping == [HostPort |-> 0, OriginalPort |-> 0]

\* restorePortMappings: current = stored port when it differs from the listed
\* one, original = the listed port
restorePortMappings(ports, stored) ==
    [k \in Keys |->
        IF ports[k] = 0 THEN NoMapping
        ELSE IF stored[k] # 0 /\ stored[k] # ports[k]
             THEN [HostPort |-> stored[k], OriginalPort |-> ports[k]]
             ELSE [HostPort |-> ports[k], OriginalPort |-> ports[k]]]

\* the matches loop of parsePortsWithoutRemapping (lines 286-297)
FreshMappings(ports) ==
    [k \in Keys |->
        IF ports[k] = 0 THEN NoMapping
        ELSE [HostPort |-> ports[k], OriginalPort |-> ports[k]]]

parsePortsWithoutRemapping(id, ports, existingMappings) ==
    IF id \in DOMAIN existingMappings
    THEN restorePortMappings(ports, existingMappings[id])
    ELSE FreshMappings(ports)

\* lines 305-314 of parsePortsWithoutRemapping
AllListedInRange(ports) ==
    /\ BoundKeys(ports) # {}
    /\ \A k \in BoundKeys(ports) : InRange(ports[k])

\* a lookup that consults the sentinel label only
isContainerProcessedLabelOnly(id) == Exists(id) /\ docker[id].label

\* isContainerProcessed: in-memory set first, sentinel label as fallback
isContainerProcessed(id) ==
    id \in processedContainers \/ (Exists(id) /\ docker[id].label)

\* a comparison that leaves the protocol out
isPortUsedByOtherContainerAnyProtocol(containerID, port, protocol) ==
    \E i \in DOMAIN containers :
        /\ i # containerID
        /\ \E k \in Keys : containers[i][k].HostPort = port

isPortUsedByOtherContainer(containerID, port, protocol) ==
    \E i \in DOMAIN containers :
        /\ i # containerID
        /\ \E k \in Keys : /\ containers[i][k].HostPort = port
                           /\ Protocol(k) = protocol

\* rand.Intn(max) + min
DrawWholeMax == portRangeMin .. (portRangeMin + portRangeMax - 1)

\* rand.Intn(max-min) + min
Draw == portRangeMin .. (portRangeMax - 1)

\* an availability check without the listen attempt
isPortAvailableTrackedOnly(port, busy) ==
    ~ \E i \in DOMAIN containers : \E k \in Keys : containers[i][k].HostPort = port

\* isPortAvailable; busy = ports on which net.Listen fails
isPortAvailable(port, busy) ==
    /\ ~ \E i \in DOMAIN containers : \E k \in Keys : containers[i][k].HostPort = port
    /\ port \notin busy

\* allocateRandomPort: the ports it can return.  A candidate of the 100 checked
\* draws is returned only if available; when every one of them was rejected
\* (possible as soon as one port of the draw domain is unavailable) the
\* fallback draw is returned unchecked.
allocateRandomPort(busy) ==
    LET accepted == {p \in Draw : isPortAvailable(p, busy)}
    IN  accepted \cup (IF accepted # Draw THEN Draw ELSE {})

\* checkPortCollision: does the binding need a remap
NeedsRemap(containerID, hostPort, protocol) ==
    IF InRange(hostPort)
    THEN isPortUsedByOtherContainer(containerID, hostPort, protocol)
    ELSE TRUE

\* ---------------------------------------------------------------------------
\* Workers: one goroutine per dispatched event
\* ---------------------------------------------------------------------------
Idle == [pc |-> "idle", handler |-> "none", id |-> 0,
         \* history of the handler: was the id in the in-memory set at the check,
         \* which branch it took, did it allocate, stop, remove or run
         procAtCheck |-> FALSE, branch |-> "none", acted |-> FALSE,
         todo |-> NoPorts, cur |-> NoKey, newPort |-> 0, insp |-> NoPorts,
         newId |-> 0, listing |-> EmptyMap, currentPortMappings |-> EmptyMap,
         snapProcessed |-> {}, newContainers |-> EmptyMap,
         newPortMappings |-> EmptyMap, newProcessedContainers |-> {}]

\* the range loop over portsToRemap goes on while entries are left, then the
\* handler's final refresh starts
NextAfterRemap(todo) == IF BoundKeys(todo) # {} THEN "rm_begin" ELSE "rf_list"

\* the docker states after addDynamicPortLabel tried to write the sentinel
\* label on the containers of ids: each write may fail
LabelOutcomes(ids) ==
    {[i \in Ids |-> IF i \in L THEN [docker[i] EXCEPT !.label = TRUE] ELSE docker[i]] :
        L \in SUBSET {j \in ids : Exists(j)}}

\* ---------------------------------------------------------------------------
\* Lock-level view: what each function does with s.mu, the three maps and the
\* runtime, instruction by instruction
\* ---------------------------------------------------------------------------
Ins(op, what) == [op |-> op, what |-> what]

\* a swap that takes the mutex in shared mode
refreshContainersCodeSharedSwap ==
    << Ins("call", "docker ps"),
       Ins("RLock", ""), Ins("read", "portMappings"), Ins("read", "processedContainers"),
       Ins("RUnlock", ""),
       Ins("call", "docker inspect"),
       Ins("RLock", ""), Ins("write", "containers"), Ins("write", "portMappings"),
       Ins("write", "processedContainers"), Ins("RUnlock", "") >>

\* refreshContainers, lines 84-267
refreshContainersCode ==
    << Ins("call", "docker ps"),
       Ins("RLock", ""), Ins("read", "portMappings"), Ins("read", "processedContainers"),
       Ins("RUnlock", ""),
       Ins("call", "docker inspect"),
       Ins("Lock", ""), Ins("write", "containers"), Ins("write", "portMappings"),
       Ins("write", "processedContainers"), Ins("Unlock", "") >>

\* handleContainerStop, lines 1121-1129 (its refresh is refreshContainersCode)
handleContainerStopCode ==
    << Ins("call", "docker inspect"),
       Ins("Lock", ""), Ins("write", "portMappings"), Ins("write", "containers"),
       Ins("write", "processedContainers"), Ins("Unlock", "") >>

\* a lookup that keeps the read lock over the label query (defer s.mu.RUnlock())
isContainerProcessedCodeDeferredRUnlock ==
    << Ins("RLock", ""), Ins("read", "processedContainers"),
       Ins("call", "docker inspect"), Ins("RUnlock", ""),
       Ins("Lock", ""), Ins("write", "processedContainers"), Ins("Unlock", "") >>

\* isContainerProcessed, lines 500-514
isContainerProcessedCode ==
    << Ins("RLock", ""), Ins("read", "processedContainers"), Ins("RUnlock", ""),
       Ins("call", "docker inspect"),
       Ins("Lock", ""), Ins("write", "processedContainers"), Ins("Unlock", "") >>

\* addDynamicPortLabel, lines 464-479
addDynamicPortLabelCode ==
    << Ins("Lock", ""), Ins("write", "processedContainers"), Ins("Unlock", ""),
       Ins("call", "docker inspect, docker container update") >>

\* remapContainerPort, lines 656-862
remapContainerPortCode ==
    << Ins("call", "docker inspect, stop, rm"), Ins("call", "docker run"),
       Ins("Lock", ""), Ins("write", "processedContainers"), Ins("Unlock", "") >>

\* GetContainers, lines 1147-1155
GetContainersCode ==
    << Ins("RLock", ""), Ins("read", "containers"), Ins("RUnlock", "") >>

\* GetContainersByComposeProject, lines 1160-1220: three passes over s.containers
GetContainersByComposeProjectCode ==
    << Ins("RLock", ""), Ins("read", "containers"), Ins("RUnlock", "") >>

\* isPortUsedByOtherContainer, line 593
isPortUsedByOtherContainerCode == << Ins("read", "containers") >>

\* isPortAvailable, line 627
isPortAvailableCode == << Ins("read", "containers") >>

\* CheckComposePortConflicts, lines 1240-1336
CheckComposePortConflictsCode ==
    << Ins("call", "docker-compose config"), Ins("read", "containers") >>

\* listenForEvents, line 873
listenForEventsCode == << Ins("call", "docker events") >>

LockTasks == {"refreshContainers", "handleContainerStop", "isContainerProcessed",
              "addDynamicPortLabel", "remapContainerPort", "GetContainers",
              "GetContainersByComposeProject", "isPortUsedByOtherContainer",
              "isPortAvailable", "CheckComposePortConflicts", "listenForEvents"}

Code(t) ==
    CASE t = "refreshContainers" -> refreshContainersCode
      [] t = "handleContainerStop" -> handleContainerStopCode
      [] t = "isContainerProcessed" -> isContainerProcessedCode
      [] t = "addDynamicPortLabel" -> addDynamicPortLabelCode
      [] t = "remapContainerPort" -> remapContainerPortCode
      [] t = "GetContainers" -> GetContainersCode
      [] t = "GetContainersByComposeProject" -> GetContainersByComposeProjectCode
      [] t = "isPortUsedByOtherContainer" -> isPortUsedByOtherContainerCode
      [] t = "isPortAvailable" -> isPortAvailableCode
      [] t = "CheckComposePortConflicts" -> CheckComposePortConflictsCode
      [] t = "listenForEvents" -> listenForEventsCode

NoTask == "none"

\* ---------------------------------------------------------------------------
\* remapContainerPort at the level of its docker run arguments
\* ---------------------------------------------------------------------------
\* line 769: the label added to the replacement
SentinelLabel == "com.dynamic-port-mapper.has-dynamic-ports"

\* the fields of docker inspect that remapContainerPort reads.  Name is a
\* string, written as the sequence of its characters
InspectNames == {<<"/", "w", "e", "b">>, <<"/", "d", "b">>}
InspectImages == {"nginx", "redis"}
InspectEnvs == {<<>>, <<"A=1">>, <<"A=1", "B=2">>}
Mount(src, dst, rw) == [Source |-> src, Destination |-> dst, RW |-> rw]
InspectMounts ==
    {<<>>, <<Mount("/data", "/var/lib", TRUE)>>,
     <<Mount("/data", "/var/lib", FALSE), Mount("/etc/app", "/conf", TRUE)>>}
InspectNetworkModes == {"default", "bridge", "host"}
RestartPolicy(name, count) == [Name |-> name, MaximumRetryCount |-> count]
InspectRestartPolicies ==
    {RestartPolicy("", 0), RestartPolicy("no", 0), RestartPolicy("always", 0),
     RestartPolicy("on-failure", 0), RestartPolicy("on-failure", 2)}
NoLabels == [k \in {} |-> ""]
InspectLabels ==
    {NoLabels, [k \in {"app"} |-> "web"], [k \in {SentinelLabel} |-> "true"],
     [k \in {"app", SentinelLabel} |-> IF k = "app" THEN "web" ELSE "false"]}
HostBinding(ip, port) == [HostIp |-> ip, HostPort |-> port]
InspectPortBindings ==
    {[k \in {<<80, "tcp">>} |-> <<HostBinding("", 1)>>],
     [k \in {<<80, "tcp">>} |-> <<HostBinding("127.0.0.1", 1), HostBinding("", 2)>>],
     [k \in Keys |-> IF k = <<80, "tcp">> THEN <<HostBinding("0.0.0.0", 1)>>
                     ELSE <<HostBinding("127.0.0.1", 1)>>],
     [k \in Keys |-> IF k = <<80, "tcp">> THEN <<HostBinding("", portRangeMin)>>
                     ELSE <<HostBinding("", EmptyHostPort)>>]}
InspectOutputs ==
    [Name : InspectNames, Image : InspectImages, Env : InspectEnvs,
     Mounts : InspectMounts, NetworkMode : InspectNetworkModes,
     RestartPolicy : InspectRestartPolicies, Labels : InspectLabels,
     PortBindings : InspectPortBindings]

\* a name kept as docker inspect prints it
containerNameWithSlash(name) == name

\* lines 676-679: the name without its leading slash
containerName(name) == IF Head(name) = "/" THEN Tail(name) ELSE name

\* lines 701-710: one "-v <Source>:<Destination>" per mount
volumeArgs(mounts) ==
    [n \in DOMAIN mounts |-> <<mounts[n].Source, mounts[n].Destination>>]

\* lines 712-750: the bindings of the other ports, and the new binding of the
\* remapped port on all interfaces
portBindings(pb, key, newHostPort) ==
    [k \in (DOMAIN pb) \cup {key} |->
        IF k = key THEN <<HostBinding("", newHostPort)>> ELSE pb[k]]

\* lines 752-763: "<name>" or "on-failure:<count>"; "" when no policy is set.
\* The count is a sequence, empty when the argument carries none
restartPolicy(policy) ==
    [name |-> policy.Name,
     count |-> IF policy.Name = "on-failure" THEN <<policy.MaximumRetryCount>>
               ELSE <<>>]

\* lines 766-774: one "--label k=v" per label, the sentinel label set to true.
\* The arguments come from ranging over a Go map: their order is unspecified
labelArgs(labels) ==
    LET all == [k \in (DOMAIN labels) \cup {SentinelLabel} |->
                   IF k = SentinelLabel THEN "true" ELSE labels[k]]
    IN  {<<k, all[k]>> : k \in DOMAIN all}

\* lines 817-829: one "-p" per binding, "<ip>:<hostPort>:<port>" when the host
\* IP is a specific address and "<hostPort>:<port>" otherwise
publishArgs(bindings) ==
    UNION {{[ip |-> IF b.HostIp # "" /\ b.HostIp # "0.0.0.0" THEN <<b.HostIp>> ELSE <<>>,
             hostPort |-> b.HostPort,
             port |-> k] : b \in {bindings[k][n] : n \in DOMAIN bindings[k]}}
           : k \in DOMAIN bindings}

\* lines 798-840: the arguments of docker run -d, one field per group of
\* arguments; an argument that is left out is an empty sequence
createArgs(info, key, newHostPort) ==
    [name |-> containerName(info.Name),
     network |-> IF info.NetworkMode # "" /\ info.NetworkMode # "default"
                 THEN <<info.NetworkMode>> ELSE <<>>,
     restart |-> IF restartPolicy(info.RestartPolicy).name # ""
                 THEN <<restartPolicy(info.RestartPolicy)>> ELSE <<>>,
     volumes |-> volumeArgs(info.Mounts),
     publish |-> publishArgs(portBindings(info.PortBindings, key, newHostPort)),
     env |-> info.Env,
     labels |-> labelArgs(info.Labels),
     image |-> info.Image]

NoInfo ==
    [Name |-> <<>>, Image |-> "", Env |-> <<>>, Mounts |-> <<>>, NetworkMode |-> "",
     RestartPolicy |-> RestartPolicy("", 0), Labels |-> NoLabels,
     PortBindings |-> [k \in {} |-> <<>>]]
NoArgs ==
    [name |-> <<>>, network |-> <<>>, restart |-> <<>>, volumes |-> <<>>,
     publish |-> {}, env |-> <<>>, labels |-> {}, image |-> ""]
NoLaunch ==
    [pc |-> "idle", info |-> NoInfo, key |-> NoKey, newHostPort |-> 0,
     createArgs |-> NoArgs]

\* ---------------------------------------------------------------------------
\* allocateRandomPort, draw by draw
\* ---------------------------------------------------------------------------
\* ---------------------------------------------------------------------------
\* The compose subcommand: CheckComposePortConflicts, GenerateRemappedComposeFile
\* ---------------------------------------------------------------------------
Services == {"web", "db"}

\* a port entry of a service.  form: a string or a table; ip: the address of a
\* string "<ip>:<host>:<container>", "" when the string has two parts;
\* kind: the YAML type of a table's published value; protocol: "" when the
\* entry names none
StringEntry(h, proto) ==
    [form |-> "string", ip |-> "", kind |-> "str", published |-> h, target |-> 80,
     protocol |-> proto]
AddressEntry(h) ==
    [form |-> "string", ip |-> "127.0.0.1", kind |-> "str", published |-> h,
     target |-> 80, protocol |-> ""]
TableEntry(h, proto, kind) ==
    [form |-> "table", ip |-> "", kind |-> kind, published |-> h, target |-> 80,
     protocol |-> proto]

PortEntries ==
    {StringEntry(1, ""), StringEntry(portRangeMin, "tcp"), StringEntry(portRangeMin + 1, ""),
     StringEntry(portRangeMin, "udp"), TableEntry(1, "", "int"),
     TableEntry(portRangeMin + 1, "tcp", "str"), TableEntry(portRangeMin, "udp", "int"),
     AddressEntry(1)}

\* the ports lists of the two services
WebPorts == {<<>>} \cup {<<e>> : e \in PortEntries}
               \cup {<<e, f>> : e \in PortEntries, f \in PortEntries}
DbPorts == {<<>>} \cup {<<e>> : e \in PortEntries}
Descriptors ==
    {[s \in Services |-> IF s = "web" THEN w ELSE d] : w \in WebPorts, d \in DbPorts}

\* the sets of host ports on which net.Listen fails during the run
BusySets == {{}, {1}, {portRangeMin, portRangeMin + 1}, {1, portRangeMin, portRangeMin + 1}}

\* lines 1278-1312: the entry as the pre-planner reads it.  A string is read
\* only when it splits into two parts at ":"; a missing protocol is tcp
Readable(e) == e.form = "table" \/ e.ip = ""
ReadProtocol(e) == IF e.protocol = "" THEN "tcp" ELSE e.protocol

\* lines 1325-1337: a tracked binding has the host port and the protocol
TrackedPair(port, protocol) ==
    \E i \in DOMAIN containers :
        \E k \in Keys : containers[i][k].HostPort = port /\ Protocol(k) = protocol

\* lines 1325-1342: inUse
inUse(port, protocol, busy) ==
    TrackedPair(port, protocol) \/ ~ isPortAvailable(port, busy)

\* lines 1395-1418: the entry after one remapping of its service was applied.
\* A two-part string that starts with "<oldPort>:" gets the new host port and
\* keeps its second part; a table whose published value is oldPort gets the
\* new port with the same YAML type
Rewritten(e, oldPort, newPort) ==
    IF Readable(e) /\ e.published = oldPort THEN [e EXCEPT !.published = newPort] ELSE e

NoDescriptor == [s \in Services |-> <<>>]
NoCompose ==
    [pc |-> "idle", descriptor |-> NoDescriptor, busy |-> {},
     visited |-> [s \in Services |-> 0], remappings |-> EmptyMap,
     emitted |-> NoDescriptor, pending |-> {}, rewrites |-> NoDescriptor,
     marked |-> {}]

\* ---------------------------------------------------------------------------
\* main: the Stores it creates and the events they handle
\* ---------------------------------------------------------------------------
\* containers the runtime holds during one run of main
MaxMainIds == 3
MainIds == 1..MaxMainIds

\* host ports of the containers: 1 lies in no range, 4 in the default range
\* only, 7 in the other range the flags can give
MainPorts == {1, 4, 7}

\* main.go 380-382: the values of --min and --max, the defaults or others
FlagRanges == {<<portRangeMin, portRangeMax>>, <<6, 8>>}

\* a container of the runtime: declared is the host port the descriptor
\* declares for it, 0 when it was not started from a descriptor
NoContainer == [state |-> "none", hostPort |-> 0, label |-> FALSE, declared |-> 0]

\* lines 59-68: a Store as NewContainerStore creates it.  queue holds the start
\* events its event reader has not dispatched yet
NewStore ==
    [portRangeMin |-> portRangeMin, portRangeMax |-> portRangeMax,
     processedContainers |-> {}, queue |-> {}]

\* used: the ranges that in-range tests and allocations have used;
\* dispatched: id -> start-handler goroutines started for its start event;
\* issued: the ids a Store has issued a stop, rm or run for
NoMain ==
    [pc |-> "start", mode |-> "none", minPort |-> 0, maxPort |-> 0, stores |-> <<>>,
     cts |-> [i \in MainIds |-> NoContainer], next |-> 1, used |-> {},
     dispatched |-> [i \in MainIds |-> 0], issued |-> {}]

\* lines 310, 392, 569, 1033: the in-range test of a Store
InRangeOf(store, port) == port >= store.portRangeMin /\ port <= store.portRangeMax

\* lines 71-73 and 304-321: the refresh that ends NewContainerStore tests the
\* ports of every container it lists that is not processed, and labels those
\* inside the range of the Store
RefreshedByNewStore(cts, store) ==
    [i \in MainIds |->
        IF cts[i].state = "running" /\ ~ cts[i].label /\ InRangeOf(store, cts[i].hostPort)
        THEN [cts[i] EXCEPT !.label = TRUE] ELSE cts[i]]

\* the ranges the in-range tests of that refresh use
UsedByNewStore(cts, store) ==
    IF \E i \in MainIds : cts[i].state = "running" /\ ~ cts[i].label
    THEN {<<store.portRangeMin, store.portRangeMax>>} ELSE {}

\* docker events delivers a start event to every subscription
Delivered(stores, id) ==
    [n \in DOMAIN stores |-> [stores[n] EXCEPT !.queue = @ \cup {id}]]

\* ---------------------------------------------------------------------------
\* The process and its event subscription
\* ---------------------------------------------------------------------------
\* lines 57-79: NewContainerStore has started go store.listenForEvents(); no
\* docker events process exists yet, the done channel is open.
\* listener: a call of listenForEvents is running; eventCmd: the docker events
\* process; reader: the goroutine in processEvents; waiter: the goroutine in
\* eventCmd.Wait(); pipe: the event lines written and not yet read; handled:
\* what the reader did with the last line (history)
NoSub ==
    [listener |-> "starting", eventCmd |-> "none", reader |-> "none", waiter |-> "none",
     done |-> FALSE, pipe |-> <<>>, handled |-> "none"]

\* the event lines the pipe of docker events can hold unread
MaxPipe == 2

\* event.Status values: one per case of the switch in processEvents
EventStatuses == {"start", "die", "exec_create", "rename"}

\* lines 934-953: what processEvents starts for an event
HandlerFor(status) ==
    CASE status = "start" -> "handleContainerStart"
      [] status = "die" -> "handleContainerStop"
      [] status = "exec_create" -> "ignored"
      [] OTHER -> "refreshContainers"

\* lines 1228-1233: Close closes done and kills the docker events process if
\* one has been started
Close(u) ==
    [u EXCEPT !.done = TRUE,
              !.eventCmd = IF u.eventCmd = "running" THEN "exited" ELSE u.eventCmd]

\* ---------------------------------------------------------------------------
\* The group view: GetContainers, GetContainersByComposeProject
\* ---------------------------------------------------------------------------
\* strings are written as the sequences of their characters
StandaloneBucket == <<"s", "t", "a", "n", "d", "a", "l", "o", "n", "e">>

\* the rows of docker ps the view is computed for
ViewIds == 1..2

\* Names of docker ps: a_w_1, a-w-1, a-w, w, _w, /b_w, standalone_w
ListedNames ==
    {<<"a", "_", "w", "_", "1">>, <<"a", "-", "w", "-", "1">>, <<"a", "-", "w">>,
     <<"w">>, <<"_", "w">>, <<"/", "b", "_", "w">>, StandaloneBucket \o <<"_", "w">>}

\* values of the label com.docker.compose.project; <<>> when it is not set
ProjectLabels == {<<>>, <<"a">>, <<"c">>, StandaloneBucket}

\* strings.Split(str, sep)
RECURSIVE Split(_, _)
Split(str, sep) ==
    IF \A n \in 1..Len(str) : str[n] # sep THEN <<str>>
    ELSE LET i == CHOOSE n \in 1..Len(str) :
                     str[n] = sep /\ \A m \in 1..(n - 1) : str[m] # sep
         IN  <<SubSeq(str, 1, i - 1)>> \o Split(SubSeq(str, i + 1, Len(str)), sep)

\* strings.TrimPrefix(name, "/")
TrimSlash(name) == IF name # <<>> /\ Head(name) = "/" THEN Tail(name) ELSE name

\* lines 137-189: the ComposeProject refreshContainers stores: the label, or
\* else the first part of the name split at "_" (two parts at least), or else
\* the first part of the name split at "-" (three parts at least)
ComposeProject(label, names) ==
    IF label # <<>> THEN label
    ELSE LET under == Split(TrimSlash(names), "_")
             hyphen == Split(TrimSlash(names), "-")
         IN  IF Len(under) >= 2 /\ under[1] # <<>> THEN under[1]
             ELSE IF Len(hyphen) >= 3 /\ hyphen[1] # <<>> THEN hyphen[1]
             ELSE <<>>

\* lines 1164-1195: projectsByID, the stored project or else the first part of
\* the name split at "_"
projectsByID(store) ==
    LET named == {i \in DOMAIN store : store[i].ComposeProject # <<>>}
        inferred == {i \in (DOMAIN store) \ named :
                        LET parts == Split(TrimSlash(store[i].Names), "_")
                        IN  Len(parts) >= 2 /\ parts[1] # <<>>}
    IN  [i \in named \cup inferred |->
            IF i \in named THEN store[i].ComposeProject
            ELSE Split(TrimSlash(store[i].Names), "_")[1]]

\* lines 1197-1218: the buckets, each with the ids of its containers
GroupedByProject(store) ==
    LET byID == projectsByID(store)
        bucket(i) == IF i \in DOMAIN byID THEN byID[i] ELSE StandaloneBucket
    IN  [b \in {bucket(i) : i \in DOMAIN store} |-> {i \in DOMAIN store : bucket(i) = b}]

NoView == [pc |-> "idle", store |-> EmptyMap, all |-> {}, projects |-> EmptyMap]

\* ---------------------------------------------------------------------------
\* remapContainerPort at the level of its runtime calls
\* ---------------------------------------------------------------------------
\* issued: the docker commands run so far, in order, each with its outcome;
\* result: "nil" or "error" once remapContainerPort has returned
\* missing: the field that is null in the inspect output, "none" when the
\* output is complete
NoRecreate ==
    [pc |-> "idle", key |-> NoKey, newHostPort |-> 0, issued |-> <<>>, result |-> "none",
     missing |-> "none"]

\* fields of the inspect output that can be null
MissingFields == {"none", "Env", "Labels", "Mounts"}

\* lines 695 and 766: Env and Labels are read with a type assertion of the
\* one-value form, which panics on null; lines 701-710: Mounts is read with
\* the two-value form, which leaves the volume list empty
assertionPanics(missing) == missing \in {"Env", "Labels"}

Call(name, ok) == [call |-> name, ok |-> ok]

\* a remap that goes on to docker rm whatever docker kill returned
AfterKillIgnored(ok) == "rm"

\* lines 782-785: after docker kill, docker rm or the error return
AfterKill(ok) == IF ok THEN "rm" ELSE "returned"

\* the largest port of a configured range
MaxConfigPort == 14

\* math/rand Intn(n): a value of [0, n); it panics when n <= 0, and then
\* returns no value
randIntn(n) == IF n <= 0 THEN {} ELSE 0..(n - 1)

NoRng == [pc |-> "idle", min |-> 0, max |-> 0, port |-> 0]

\* line 611: the number of checked attempts (100 in the source, scaled)
maxAttempts == 3

\* busy: the ports on which net.Listen fails during the call; draws: the
\* candidates drawn so far, in order; result: the port returned, 0 before
NoAlloc == [pc |-> "idle", busy |-> {}, draws |-> <<>>, result |-> 0]
\* ---- history of the listings ----
\* order: the workers that hold a docker ps listing they have not installed
\* yet, the oldest listing first; stale: the workers among them whose listing
\* is older than one that has been installed since; deleted[w]: the ids stop
\* handlers deleted from the Store since w took its listing
NoHist ==
    [on |-> FALSE, order |-> <<>>, stale |-> {}, deleted |-> [w \in Workers |-> {}]]

Holders(h) == {h.order[n] : n \in DOMAIN h.order}

\* lines 84-85: w has taken a listing
HistListed(h, w) ==
    IF ~ h.on THEN h
    ELSE [h EXCEPT !.order = Append(@, w), !.stale = @ \ {w}, !.deleted[w] = {}]

\* lines 1124-1129: a stop handler has deleted id
HistDeleted(h, id) ==
    IF ~ h.on THEN h
    ELSE [h EXCEPT !.deleted = [u \in Workers |->
                                  IF u \in Holders(h) THEN @[u] \cup {id} ELSE @[u]]]

\* lines 262-267: w has installed the maps built from its listing
HistSwapped(h, w) ==
    LET NotW(u) == u # w
        at == CHOOSE n \in DOMAIN h.order : h.order[n] = w
    IN  IF ~ h.on THEN h
        ELSE [h EXCEPT !.order = SelectSeq(@, NotW),
                       !.stale = (@ \cup {h.order[n] : n \in 1..(at - 1)}) \ {w},
                       !.deleted[w] = {}]


InitStore ==
    /\ \E pre \in BOOLEAN, spec \in InitialSpecs \cup {NoPorts}, eph \in BOOLEAN :
        /\ pre <=> spec # NoPorts
        /\ eph => spec = Bind(EphemeralPort1, 0)
        /\ docker = [i \in Ids |->
                        IF pre /\ i = 1
                        THEN [state |-> "running", ports |-> spec, eph |-> eph,
                              label |-> FALSE]
                        ELSE Gone]
        /\ nextId = IF pre THEN 2 ELSE 1
        /\ envSteps = IF pre THEN 1 ELSE 0
        \* NewContainerStore: empty maps, then one refreshContainers
        /\ containers = IF pre THEN [i \in {1} |-> FreshMappings(spec)] ELSE EmptyMap
        /\ portMappings = IF pre THEN [i \in {1} |-> spec] ELSE EmptyMap
    /\ processedContainers = {}
    /\ events = {}
    /\ workers = [w \in Workers |-> Idle]
    /\ origin = [i \in Ids |-> IF Exists(i) THEN "initial" ELSE "none"]
    /\ parent = [i \in Ids |-> 0]
    /\ reloc = [i \in Ids |-> [key |-> NoKey, old |-> 0, new |-> 0]]
    /\ touched = {}
    /\ sticky = {}
    /\ refed = {}
    /\ mu = [writer |-> NoTask, readers |-> {}]
    /\ lpc = [t \in LockTasks |-> 1]
    /\ launch = NoLaunch
    /\ alloc = NoAlloc
    /\ rng = NoRng
    /\ compose = NoCompose
    /\ view = NoView
    /\ recreate = NoRecreate
    /\ main = NoMain
    /\ proc = "running"
    /\ sub = NoSub

\* the state after construction
Init == InitStore /\ hist = NoHist

\* the same state, with the history of the listings kept
InitOverlap == InitStore /\ hist = [NoHist EXCEPT !.on = TRUE]

\* ---- the outside user ----
UserRun ==
    /\ nextId <= MaxIds
    /\ envSteps < MaxEnv
    /\ Cardinality({i \in Ids : origin[i] = "user"}) < MaxUserRuns
    /\ \E spec \in FixedSpecs, eph \in BOOLEAN, ep \in EphemeralPorts :
        /\ eph => spec = Bind(1, 0)
        /\ ~eph => ep = EphemeralPort1
        /\ docker' = [docker EXCEPT ![nextId] =
                        [state |-> "running",
                         ports |-> IF eph THEN [k \in Keys |-> IF spec[k] # 0 THEN ep ELSE 0]
                                   ELSE spec,
                         eph |-> eph, label |-> FALSE]]
    /\ events' = events \cup {<<"start", nextId>>}
    /\ origin' = [origin EXCEPT ![nextId] = "user"]
    /\ nextId' = nextId + 1
    /\ envSteps' = envSteps + 1
    /\ UNCHANGED <<procVars, callVars, lockVars, hist, refed, containers, portMappings, processedContainers, workers, parent, reloc,
                   touched, sticky, main>>

\* docker kill --signal=HUP: a kill event, the container keeps running
UserKillSignal(i) ==
    /\ envSteps < MaxEnv
    /\ Running(i)
    /\ events' = events \cup {<<"stop", i>>}
    /\ envSteps' = envSteps + 1
    /\ UNCHANGED <<procVars, callVars, lockVars, hist, refed, docker, nextId, containers, portMappings, processedContainers,
                   workers, origin, parent, reloc, touched, sticky, main>>

\* docker restart: die then start for the same id; an ephemeral binding gets
\* a new host port
UserRestart(i) ==
    /\ envSteps < MaxEnv
    /\ Running(i)
    /\ \E ep \in EphemeralPorts :
        docker' = [docker EXCEPT ![i].ports =
                     IF docker[i].eph
                     THEN [k \in Keys |-> IF docker[i].ports[k] # 0 THEN ep ELSE 0]
                     ELSE docker[i].ports]
    /\ events' = events \cup {<<"stop", i>>, <<"start", i>>}
    /\ envSteps' = envSteps + 1
    /\ sticky' = sticky \ {i}
    /\ UNCHANGED <<procVars, callVars, lockVars, hist, refed, nextId, containers, portMappings, processedContainers, workers,
                   origin, parent, reloc, touched, main>>

\* ---- processEvents: go handleContainerStart / go handleContainerStop ----
Dispatch(w) ==
    /\ workers[w].pc = "idle"
    /\ \A v \in Workers : v < w => workers[v].pc # "idle"
    /\ \E e \in events :
        /\ events' = events \ {e}
        /\ workers' = [workers EXCEPT ![w] =
                         [Idle EXCEPT !.pc = IF e[1] = "start" THEN "hs_check"
                                            ELSE "st_delete",
                                      !.handler = e[1],
                                      !.id = e[2]]]
    /\ UNCHANGED <<procVars, callVars, lockVars, hist, refed, docker, nextId, containers, portMappings, processedContainers,
                   envSteps, origin, parent, reloc, touched, sticky, main>>

\* a labelling call that leaves the processed set as it is
addDynamicPortLabelUnmarked(processed, id) == processed

\* lines 462-466: addDynamicPortLabel inserts the id into processedContainers
\* before it runs any docker command (the commands are LabelOutcomes)
addDynamicPortLabel(processed, id) == processed \cup {id}

\* ---- handleContainerStart ----
\* lines 976-984: isContainerProcessed
HsCheck(w) ==
    LET id == workers[w].id
        r == isContainerProcessed(id)
    IN  /\ workers[w].pc = "hs_check"
        /\ processedContainers' = IF r THEN processedContainers \cup {id}
                                  ELSE processedContainers
        /\ sticky' = IF r /\ Running(id) THEN sticky \cup {id} ELSE sticky
        /\ workers' = [workers EXCEPT ![w].pc = IF r THEN "rf_list" ELSE "hs_eval",
                                      ![w].branch = IF r THEN "processed" ELSE "none",
                                      ![w].procAtCheck = (id \in processedContainers)]
        /\ UNCHANGED <<procVars, callVars, lockVars, hist, refed, docker, nextId, events, containers, portMappings, envSteps,
                       origin, parent, reloc, touched, main>>

\* lines 1019-1037: a binding with HostPort "" is skipped, any other one
\* outside the range clears the flag
allInDynamicRange(hc) ==
    \A k \in BoundKeys(hc) : hc[k] = EmptyHostPort \/ InRange(hc[k])

\* lines 1054-1082: the keys checkPortCollision schedules
KeysToRemap(id, hc) ==
    {k \in BoundKeys(hc) : hc[k] # EmptyHostPort /\ NeedsRemap(id, hc[k], Protocol(k))}

\* lines 990-1107: inspect, the dynamic-range test, the collision checks
HsEval(w) ==
    LET id == workers[w].id
        hc == HostConfigPorts(id)
        need == KeysToRemap(id, hc)
    IN  /\ workers[w].pc = "hs_eval"
        /\ IF ~Exists(id) \/ BoundKeys(hc) = {}
           THEN \* inspect failed, or no port bindings to manage: return
                /\ workers' = [workers EXCEPT ![w] = Idle]
                /\ UNCHANGED <<docker, processedContainers>>
           ELSE IF allInDynamicRange(hc) \/ need = {}
           THEN \* addDynamicPortLabel, then refresh
                /\ processedContainers' = addDynamicPortLabel(processedContainers, id)
                /\ docker' \in LabelOutcomes({id})
                /\ workers' = [workers EXCEPT ![w].pc = "rf_list",
                                              ![w].branch = IF allInDynamicRange(hc)
                                                            THEN "inrange" ELSE "clear"]
           ELSE \* one allocateRandomPort per scheduled key
                /\ \E busy \in SUBSET Draw :
                   \E f \in [need -> allocateRandomPort(busy)] :
                      workers' = [workers EXCEPT
                                    ![w].pc = "rm_begin",
                                    ![w].branch = "remap",
                                    ![w].acted = TRUE,
                                    ![w].todo = [k \in Keys |-> IF k \in need THEN f[k]
                                                               ELSE 0]]
                /\ UNCHANGED <<docker, processedContainers>>
        /\ UNCHANGED <<procVars, callVars, lockVars, hist, refed, nextId, events, containers, portMappings, envSteps, origin, parent,
                       reloc, touched, sticky, main>>

\* ---- remapContainerPort ----
\* lines 650-669: addDynamicPortLabel, then docker inspect
RmBegin(w) ==
    LET id == workers[w].id
    IN  /\ workers[w].pc = "rm_begin"
        /\ processedContainers' = addDynamicPortLabel(processedContainers, id)
        /\ docker' \in LabelOutcomes({id})
        /\ \E k \in BoundKeys(workers[w].todo) :
            LET rest == [workers[w].todo EXCEPT ![k] = 0]
            IN  IF Exists(id)
                THEN workers' = [workers EXCEPT ![w].pc = "rm_stop",
                                                ![w].cur = k,
                                                ![w].newPort = workers[w].todo[k],
                                                ![w].insp = HostConfigPorts(id),
                                                ![w].todo = rest]
                ELSE workers' = [workers EXCEPT ![w].pc = NextAfterRemap(rest),
                                                ![w].todo = rest]
        /\ UNCHANGED <<procVars, callVars, lockVars, hist, refed, nextId, events, containers, portMappings, envSteps, origin, parent,
                       reloc, touched, sticky, main>>

\* lines 776-786: docker stop, docker kill when that failed
RmStop(w) ==
    LET id == workers[w].id
    IN  /\ workers[w].pc = "rm_stop"
        /\ IF Exists(id)
           THEN /\ docker' = [docker EXCEPT ![id].state = "exited"]
                /\ events' = IF Running(id) THEN events \cup {<<"stop", id>>} ELSE events
                /\ touched' = touched \cup {id}
                /\ sticky' = sticky \ {id}
                /\ workers' = [workers EXCEPT ![w].pc = "rm_rm"]
           ELSE /\ workers' = [workers EXCEPT ![w].pc = NextAfterRemap(workers[w].todo)]
                /\ UNCHANGED <<docker, events, touched, sticky>>
        /\ UNCHANGED <<procVars, callVars, lockVars, hist, refed, nextId, containers, portMappings, processedContainers, envSteps,
                       origin, parent, reloc, main>>

\* lines 791-796: docker rm
RmRm(w) ==
    LET id == workers[w].id
    IN  /\ workers[w].pc = "rm_rm"
        /\ IF docker[id].state = "exited"
           THEN /\ docker' = [docker EXCEPT ![id] = Gone]
                /\ events' = events \cup {<<"stop", id>>}
                /\ touched' = touched \cup {id}
                /\ workers' = [workers EXCEPT ![w].pc = "rm_run"]
           ELSE /\ workers' = [workers EXCEPT ![w].pc = NextAfterRemap(workers[w].todo)]
                /\ UNCHANGED <<docker, events, touched>>
        /\ UNCHANGED <<procVars, callVars, lockVars, hist, refed, nextId, containers, portMappings, processedContainers, envSteps,
                       origin, parent, reloc, sticky, main>>

\* lines 712-750: the inspected bindings with the remapped key replaced
RewrittenBindings(insp, key, newHostPort) == [insp EXCEPT ![key] = newHostPort]

\* a docker run without the --label argument
ReplacementLabelLeftOut == FALSE

\* line 769: the replacement is launched with the sentinel label
ReplacementLabel == TRUE

\* lines 798-852: docker run -d starts the replacement
RmRunStarts(w) ==
    LET id == workers[w].id
    IN  /\ workers[w].pc = "rm_run"
        /\    /\ nextId <= MaxIds
              /\ docker' = [docker EXCEPT ![nextId] =
                              [state |-> "running",
                               ports |-> RewrittenBindings(workers[w].insp, workers[w].cur,
                                                           workers[w].newPort),
                               eph |-> FALSE, label |-> ReplacementLabel]]
              /\ events' = events \cup {<<"start", nextId>>}
              /\ nextId' = nextId + 1
              /\ origin' = [origin EXCEPT ![nextId] = "replacement"]
              /\ parent' = [parent EXCEPT ![nextId] = id]
              /\ reloc' = [reloc EXCEPT ![nextId] =
                             [key |-> workers[w].cur,
                              old |-> workers[w].insp[workers[w].cur],
                              new |-> workers[w].newPort]]
              /\ workers' = [workers EXCEPT ![w].pc = "rm_marknew", ![w].newId = nextId]
        /\ UNCHANGED <<procVars, callVars, lockVars, hist, refed, containers, portMappings, processedContainers, envSteps, touched,
                       sticky, main>>

\* lines 849-852: docker run failed, the error is returned
RmRunFails(w) ==
    /\ workers[w].pc = "rm_run"
    /\ workers' = [workers EXCEPT ![w].pc = NextAfterRemap(workers[w].todo)]
    /\ UNCHANGED <<procVars, callVars, lockVars, hist, refed, docker, nextId, events, containers, portMappings, processedContainers,
                   envSteps, origin, parent, reloc, touched, sticky, main>>

RmRun(w) == RmRunStarts(w) \/ RmRunFails(w)

\* lines 859-862: mark the new id processed
RmMarkNew(w) ==
    /\ workers[w].pc = "rm_marknew"
    /\ processedContainers' = processedContainers \cup {workers[w].newId}
    /\ workers' = [workers EXCEPT ![w].pc = NextAfterRemap(workers[w].todo)]
    /\ UNCHANGED <<procVars, callVars, lockVars, hist, refed, docker, nextId, events, containers, portMappings, envSteps, origin,
                   parent,
                   reloc, touched, sticky, main>>

\* ---- handleContainerStop ----
\* a cleanup that forgets the processed set
StDeleteKeepsProcessed(w) ==
    LET id == workers[w].id
    IN  /\ workers[w].pc = "st_delete"
        /\ portMappings' = Without(portMappings, id)
        /\ containers' = Without(containers, id)
        /\ workers' = [workers EXCEPT ![w].pc = "rf_list"]
        /\ UNCHANGED <<procVars, callVars, lockVars, hist, refed, docker, nextId, events, envSteps, origin, parent, reloc,
                       touched, sticky, processedContainers, main>>

\* lines 1124-1129: delete the id from the three maps
StDelete(w) ==
    LET id == workers[w].id
    IN  /\ workers[w].pc = "st_delete"
        /\ portMappings' = Without(portMappings, id)
        /\ containers' = Without(containers, id)
        /\ processedContainers' = processedContainers \ {id}
        /\ workers' = [workers EXCEPT ![w].pc = "rf_list"]
        /\ hist' = HistDeleted(hist, id)
        /\ UNCHANGED <<procVars, callVars, lockVars, refed, docker, nextId, events, envSteps, origin, parent, reloc, touched,
                       sticky, main>>

\* ---- refreshContainers ----
\* lines 84-85: docker ps
RfListed(w) ==
    /\ workers[w].pc = "rf_list"
    /\ workers' = [workers EXCEPT ![w].pc = "rf_snapshot", ![w].listing = DockerPs]
    /\ hist' = HistListed(hist, w)
    /\ UNCHANGED <<procVars, callVars, lockVars, refed, docker, nextId, events, containers, portMappings, processedContainers,
                   envSteps, origin, parent, reloc, touched, sticky, main>>

\* a failed listing after which the maps are emptied
RfListFailsClearing(w) ==
    /\ workers[w].pc = "rf_list"
    /\ workers' = [workers EXCEPT ![w] = [Idle EXCEPT !.branch = "listfailed"]]
    /\ containers' = EmptyMap
    /\ portMappings' = EmptyMap
    /\ processedContainers' = {}
    /\ UNCHANGED <<procVars, callVars, lockVars, hist, refed, docker, nextId, events, envSteps, origin, parent, reloc,
                   touched, sticky, main>>

\* lines 86-88: docker ps failed; the error is returned and the caller logs it
\* (lines 1044-1046, 1110-1112, 1134-1137), which ends the handler
RfListFails(w) ==
    /\ workers[w].pc = "rf_list"
    /\ workers' = [workers EXCEPT ![w] = [Idle EXCEPT !.branch = "listfailed"]]
    /\ UNCHANGED <<procVars, callVars, lockVars, hist, refed, docker, nextId, events, containers, portMappings, processedContainers,
                   envSteps, origin, parent, reloc, touched, sticky, main>>

RfList(w) == RfListed(w) \/ RfListFails(w)

\* lines 90-104: the copies of portMappings and processedContainers taken
\* under the read lock
RfSnapshot(w) ==
    /\ workers[w].pc = "rf_snapshot"
    /\ workers' = [workers EXCEPT ![w].pc = "rf_build",
                                  ![w].currentPortMappings = portMappings,
                                  ![w].snapProcessed = processedContainers]
    /\ UNCHANGED <<procVars, callVars, lockVars, hist, refed, docker, nextId, events, containers, portMappings, processedContainers,
                   envSteps, origin, parent, reloc, touched, sticky, main>>

\* lines 107-256: the new maps, built from the listing and the copies
RfBuild(w) ==
    LET listing == workers[w].listing
        current == workers[w].currentPortMappings
        kept == {i \in DOMAIN listing : Exists(i)}
        fresh == {i \in kept : i \notin DOMAIN current}
        known == {i \in fresh : isContainerProcessed(i)}
        marks == {i \in fresh \ known : AllListedInRange(listing[i])}
        newC == [i \in kept |-> parsePortsWithoutRemapping(i, listing[i], current)]
        withPorts == {i \in kept : BoundKeys(listing[i]) # {}}
    IN  /\ workers[w].pc = "rf_build"
        /\ workers' = [workers EXCEPT
                         ![w].pc = "rf_swap",
                         ![w].listing = EmptyMap,
                         ![w].currentPortMappings = EmptyMap,
                         ![w].snapProcessed = {},
                         ![w].newContainers = newC,
                         ![w].newPortMappings =
                             [i \in withPorts |-> [k \in Keys |-> newC[i][k].HostPort]],
                         ![w].newProcessedContainers = kept \cap workers[w].snapProcessed]
        \* isContainerProcessed caches a label hit; addDynamicPortLabel marks a
        \* container whose listed ports are all in the range
        /\ processedContainers' = processedContainers \cup known \cup marks
        /\ docker' \in LabelOutcomes(marks)
        /\ sticky' = sticky \cup {i \in known : Running(i)}
        /\ UNCHANGED <<procVars, callVars, lockVars, hist, refed, nextId, events, containers, portMappings, envSteps, origin, parent,
                       reloc, touched, main>>

\* lines 262-267: the swap
RfSwap(w) ==
    /\ workers[w].pc = "rf_swap"
    /\ containers' = workers[w].newContainers
    /\ portMappings' = workers[w].newPortMappings
    /\ processedContainers' = workers[w].newProcessedContainers
    /\ workers' = [workers EXCEPT ![w] = Idle]
    /\ hist' = HistSwapped(hist, w)
    /\ UNCHANGED <<procVars, callVars, lockVars, refed, docker, nextId, events, envSteps, origin, parent, reloc, touched, sticky, main>>

Next ==
    \/ UserRun
    \/ \E i \in Ids : UserKillSignal(i)
    \/ \E i \in Ids : UserRestart(i)
    \/ \E w \in Workers : Dispatch(w)
    \/ \E w \in Workers : HsCheck(w)
    \/ \E w \in Workers : HsEval(w)
    \/ \E w \in Workers : RmBegin(w)
    \/ \E w \in Workers : RmStop(w)
    \/ \E w \in Workers : RmRm(w)
    \/ \E w \in Workers : RmRun(w)
    \/ \E w \in Workers : RmMarkNew(w)
    \/ \E w \in Workers : StDelete(w)
    \/ \E w \in Workers : RfList(w)
    \/ \E w \in Workers : RfSnapshot(w)
    \/ \E w \in Workers : RfBuild(w)
    \/ \E w \in Workers : RfSwap(w)

Spec == Init /\ [][Next]_vars

\* the same system while every docker ps and docker run succeeds
NextRuntimeUp ==
    \/ UserRun
    \/ \E i \in Ids : UserKillSignal(i)
    \/ \E i \in Ids : UserRestart(i)
    \/ \E w \in Workers : Dispatch(w)
    \/ \E w \in Workers : HsCheck(w)
    \/ \E w \in Workers : HsEval(w)
    \/ \E w \in Workers : RmBegin(w)
    \/ \E w \in Workers : RmStop(w)
    \/ \E w \in Workers : RmRm(w)
    \/ \E w \in Workers : RmRunStarts(w)
    \/ \E w \in Workers : RmMarkNew(w)
    \/ \E w \in Workers : StDelete(w)
    \/ \E w \in Workers : RfListed(w)
    \/ \E w \in Workers : RfSnapshot(w)
    \/ \E w \in Workers : RfBuild(w)
    \/ \E w \in Workers : RfSwap(w)

SpecRuntimeUp == Init /\ [][NextRuntimeUp]_vars

\* ---- lock-level steps ----
\* the instruction task t is at; after the last one the function returns and
\* is called again
Cur(t) == Code(t)[lpc[t]]
Advance(t) == lpc' = [lpc EXCEPT ![t] = IF lpc[t] = Len(Code(t)) THEN 1 ELSE lpc[t] + 1]

\* s.mu.Lock(): waits until nobody holds the mutex
MuLock(t) ==
    /\ Cur(t).op = "Lock"
    /\ mu.writer = NoTask /\ mu.readers = {}
    /\ mu' = [mu EXCEPT !.writer = t]
    /\ Advance(t)
    /\ UNCHANGED <<storeVars, procVars, callVars, main>>

\* s.mu.Unlock()
MuUnlock(t) ==
    /\ Cur(t).op = "Unlock"
    /\ mu' = [mu EXCEPT !.writer = IF mu.writer = t THEN NoTask ELSE mu.writer]
    /\ Advance(t)
    /\ UNCHANGED <<storeVars, procVars, callVars, main>>

\* s.mu.RLock(): waits while a writer holds the mutex
MuRLock(t) ==
    /\ Cur(t).op = "RLock"
    /\ mu.writer = NoTask
    /\ mu' = [mu EXCEPT !.readers = mu.readers \cup {t}]
    /\ Advance(t)
    /\ UNCHANGED <<storeVars, procVars, callVars, main>>

\* s.mu.RUnlock()
MuRUnlock(t) ==
    /\ Cur(t).op = "RUnlock"
    /\ mu' = [mu EXCEPT !.readers = mu.readers \ {t}]
    /\ Advance(t)
    /\ UNCHANGED <<storeVars, procVars, callVars, main>>

\* a read or a write of one of the three maps
MapAccess(t) ==
    /\ Cur(t).op \in {"read", "write"}
    /\ Advance(t)
    /\ UNCHANGED <<storeVars, procVars, callVars, mu, main>>

\* an exec.Command of the docker CLI
RuntimeCall(t) ==
    /\ Cur(t).op = "call"
    /\ Advance(t)
    /\ UNCHANGED <<storeVars, procVars, callVars, mu, main>>

NextLock ==
    \/ \E t \in LockTasks : MuLock(t)
    \/ \E t \in LockTasks : MuUnlock(t)
    \/ \E t \in LockTasks : MuRLock(t)
    \/ \E t \in LockTasks : MuRUnlock(t)
    \/ \E t \in LockTasks : MapAccess(t)
    \/ \E t \in LockTasks : RuntimeCall(t)

\* the functions run against a store created with no container running
InitLock == Init /\ nextId = 1

SpecLock == InitLock /\ [][NextLock]_vars

\* the start event of a container the user started is delivered once more,
\* after the first delivery was dispatched
RefeedStart(i) ==
    /\ envSteps < MaxEnv
    /\ origin[i] = "user"
    /\ i \notin refed
    /\ <<"start", i>> \notin events
    /\ events' = events \cup {<<"start", i>>}
    /\ refed' = refed \cup {i}
    /\ envSteps' = envSteps + 1
    /\ UNCHANGED <<procVars, callVars, lockVars, hist, docker, nextId, containers, portMappings, processedContainers, workers,
                   origin, parent, reloc, touched, sticky, main>>

NextRefeed == NextRuntimeUp \/ \E i \in Ids : RefeedStart(i)

SpecRefeed == Init /\ [][NextRefeed]_vars

\* overlapping refreshes and stop handlers, every docker ps and docker run
\* succeeding, with the order of the listings recorded
SpecOverlap == InitOverlap /\ [][NextRuntimeUp]_vars

\* ---- call-level steps of remapContainerPort ----
\* lines 656-672: docker inspect of the container to recreate
RemapInspect ==
    /\ launch.pc = "idle"
    /\ \E info \in InspectOutputs, newHostPort \in Draw :
         \E key \in DOMAIN info.PortBindings :
            launch' = [pc |-> "inspected", info |-> info, key |-> key,
                       newHostPort |-> newHostPort, createArgs |-> NoArgs]
    /\ UNCHANGED <<storeVars, lockVars, procVars, alloc, rng, compose, view, recreate, main>>

\* lines 676-840: the docker run arguments are built from the inspected data
RemapBuildArgs ==
    /\ launch.pc = "inspected"
    /\ launch' = [launch EXCEPT
                    !.pc = "built",
                    !.createArgs = createArgs(launch.info, launch.key, launch.newHostPort)]
    /\ UNCHANGED <<storeVars, lockVars, procVars, alloc, rng, compose, view, recreate, main>>

\* lines 845-867: docker run is executed and remapContainerPort returns
RemapRun ==
    /\ launch.pc = "built"
    /\ launch' = NoLaunch
    /\ UNCHANGED <<storeVars, lockVars, procVars, alloc, rng, compose, view, recreate, main>>

\* ---- shutdown ----
\* main.go 441-449: on SIGINT or SIGTERM the signal goroutine calls app.Close()
\* and os.Exit(0); main.go 403-432: in compose mode main returns as soon as
\* runComposeCommand has returned.  Either way the process ends with all its
\* goroutines
Shutdown ==
    /\ proc = "running"
    /\ proc' = "exited"
    /\ sub' = Close(sub)
    /\ UNCHANGED <<storeVars, lockVars, callVars, main>>

\* the workers step while the process runs
NextShutdown == (proc = "running" /\ NextRuntimeUp) \/ Shutdown

SpecShutdown == Init /\ [][NextShutdown]_vars

\* ---- the event subscription ----
\* lines 872-898: docker events is started; one goroutine reads its output,
\* one waits for it to exit
ListenStarts ==
    /\ sub.listener = "starting"
    /\ sub' = [sub EXCEPT !.listener = "none", !.eventCmd = "running",
                          !.reader = "scanning", !.waiter = "waiting", !.pipe = <<>>]
    /\ UNCHANGED <<storeVars, lockVars, callVars, proc, main>>

\* lines 875-884: the pipe or the process cannot be started; listenForEvents
\* logs and returns
ListenFails ==
    /\ sub.listener = "starting"
    /\ sub' = [sub EXCEPT !.listener = "none"]
    /\ UNCHANGED <<storeVars, lockVars, callVars, proc, main>>

\* the runtime writes an event line
RuntimeEmits(status) ==
    /\ sub.eventCmd = "running"
    /\ Len(sub.pipe) < MaxPipe
    /\ sub' = [sub EXCEPT !.pipe = Append(@, status)]
    /\ UNCHANGED <<storeVars, lockVars, callVars, proc, main>>

\* lines 917-955: processEvents reads one line and starts its handler
ReaderScans ==
    /\ sub.reader = "scanning"
    /\ sub.pipe # <<>>
    /\ sub' = [sub EXCEPT !.pipe = Tail(@), !.handled = HandlerFor(Head(sub.pipe))]
    /\ UNCHANGED <<storeVars, lockVars, callVars, proc, main>>

\* the docker events process exits by itself (the daemon went away)
StreamEnds ==
    /\ sub.eventCmd = "running"
    /\ sub' = [sub EXCEPT !.eventCmd = "exited"]
    /\ UNCHANGED <<storeVars, lockVars, callVars, proc, main>>

\* lines 957-959: the scanner reaches the end of the stream
ReaderEnds ==
    /\ sub.reader = "scanning"
    /\ sub.eventCmd = "exited"
    /\ sub.pipe = <<>>
    /\ sub' = [sub EXCEPT !.reader = "ended"]
    /\ UNCHANGED <<storeVars, lockVars, callVars, proc, main>>

\* lines 901-910: Wait returns; the goroutine returns when done is closed and
\* sleeps 5 s otherwise
WaitReturns ==
    /\ sub.waiter = "waiting"
    /\ sub.eventCmd = "exited"
    /\ sub' = [sub EXCEPT !.waiter = IF sub.done THEN "returned" ELSE "sleeping"]
    /\ UNCHANGED <<storeVars, lockVars, callVars, proc, main>>

\* lines 910-911: after the sleep, go s.listenForEvents()
BackoffOver ==
    /\ sub.waiter = "sleeping"
    /\ sub' = [sub EXCEPT !.waiter = "none", !.listener = "starting"]
    /\ UNCHANGED <<storeVars, lockVars, callVars, proc, main>>

\* lines 1228-1233: Close is called
CloseStore ==
    /\ ~ sub.done
    /\ sub' = Close(sub)
    /\ UNCHANGED <<storeVars, lockVars, callVars, proc, main>>

NextSubscription ==
    \/ ListenStarts
    \/ ListenFails
    \/ \E status \in EventStatuses : RuntimeEmits(status)
    \/ ReaderScans
    \/ StreamEnds
    \/ ReaderEnds
    \/ WaitReturns
    \/ BackoffOver
    \/ CloseStore

SpecSubscription == InitLock /\ [][NextSubscription]_vars

\* every goroutine of the subscription keeps running: the listener makes its
\* attempt, the reader reads, the waiter wakes up
SpecSubscriptionLive ==
    /\ SpecSubscription
    /\ WF_vars(ListenStarts \/ ListenFails)
    /\ WF_vars(ReaderScans)
    /\ WF_vars(ReaderEnds)
    /\ WF_vars(WaitReturns)
    /\ WF_vars(BackoffOver)

\* ---- the group view ----
\* lines 107-267: refreshContainers stores the listed containers with their
\* names and projects
ViewRefresh ==
    /\ view.pc = "idle"
    /\ \E ids \in SUBSET ViewIds :
         \E names \in [ids -> ListedNames], labels \in [ids -> ProjectLabels] :
            view' = [NoView EXCEPT
                       !.pc = "stored",
                       !.store = [i \in ids |->
                                    [Names |-> names[i], label |-> labels[i],
                                     ComposeProject |-> ComposeProject(labels[i], names[i])]]]
    /\ UNCHANGED <<storeVars, lockVars, procVars, launch, alloc, rng, compose, recreate, main>>

\* lines 1145-1155: GetContainers
GetContainers ==
    /\ view.pc = "stored"
    /\ view' = [view EXCEPT !.pc = "listed", !.all = DOMAIN view.store]
    /\ UNCHANGED <<storeVars, lockVars, procVars, launch, alloc, rng, compose, recreate, main>>

\* lines 1158-1221: GetContainersByComposeProject
GetContainersByComposeProject ==
    /\ view.pc = "listed"
    /\ view' = [view EXCEPT !.pc = "grouped", !.projects = GroupedByProject(view.store)]
    /\ UNCHANGED <<storeVars, lockVars, procVars, launch, alloc, rng, compose, recreate, main>>

\* the page has been rendered
ViewDone ==
    /\ view.pc = "grouped"
    /\ view' = NoView
    /\ UNCHANGED <<storeVars, lockVars, procVars, launch, alloc, rng, compose, recreate, main>>

NextView == ViewRefresh \/ GetContainers \/ GetContainersByComposeProject \/ ViewDone

SpecView == InitLock /\ [][NextView]_vars

\* ---- the runtime calls of remapContainerPort ----
\* the state of the call after one docker command has returned with outcome
\* ok: the function goes on at position next, or has returned result
Issued(name, ok, next, result) ==
    [recreate EXCEPT !.pc = next, !.issued = Append(@, Call(name, ok)), !.result = result]

\* line 646: remapContainerPort is called for a binding and its new host port
RecreateCall ==
    /\ recreate.pc = "idle"
    /\ proc = "running"
    /\ \E key \in Keys, newHostPort \in Draw :
         recreate' = [NoRecreate EXCEPT !.pc = "label_check", !.key = key,
                                        !.newHostPort = newHostPort]
    /\ UNCHANGED <<storeVars, lockVars, procVars, launch, alloc, rng, compose, view, main>>

\* lines 472-476 (addDynamicPortLabel): docker inspect --format {{.ID}}
LabelCheck(ok) ==
    /\ recreate.pc = "label_check"
    /\ recreate' = Issued("inspect id", ok, IF ok THEN "label_update" ELSE "inspect",
                          "none")
    /\ UNCHANGED <<storeVars, lockVars, procVars, launch, alloc, rng, compose, view, main>>

\* lines 479-481: docker container update --label
LabelUpdate(ok) ==
    /\ recreate.pc = "label_update"
    /\ recreate' = Issued("container update", ok, IF ok THEN "inspect" ELSE "label_fallback",
                          "none")
    /\ UNCHANGED <<storeVars, lockVars, procVars, launch, alloc, rng, compose, view, main>>

\* lines 484-490: docker container label
LabelFallback(ok) ==
    /\ recreate.pc = "label_fallback"
    /\ recreate' = Issued("container label", ok, "inspect",
                          "none")
    /\ UNCHANGED <<storeVars, lockVars, procVars, launch, alloc, rng, compose, view, main>>

\* lines 656-669: docker inspect; an error is returned when it fails or its
\* output cannot be used
Inspect(ok) ==
    /\ recreate.pc = "inspect"
    /\ \E missing \in IF ok THEN MissingFields ELSE {"none"} :
         recreate' = [Issued("inspect", ok, IF ok THEN "extract_label" ELSE "returned",
                             IF ok THEN "none" ELSE "error")
                        EXCEPT !.missing = missing]
    /\ UNCHANGED <<storeVars, lockVars, procVars, launch, alloc, rng, compose, view, main>>

\* lines 682 and 329-337 (extractLabel): docker inspect of the compose label
\* (ok: it succeeded with a value that is not empty)
ExtractLabel(ok) ==
    /\ recreate.pc = "extract_label"
    /\ recreate' = Issued("inspect label", ok,
                          IF ok THEN "read_fields" ELSE "extract_again",
                          "none")
    /\ UNCHANGED <<storeVars, lockVars, procVars, launch, alloc, rng, compose, view, main>>

\* lines 340-351: the second form of the label lookup
ExtractLabelAgain(ok) ==
    /\ recreate.pc = "extract_again"
    /\ recreate' = Issued("inspect label", ok, "read_fields",
                          "none")
    /\ UNCHANGED <<storeVars, lockVars, procVars, launch, alloc, rng, compose, view, main>>

\* lines 689-774: the fields of the inspect output are read.  The handler
\* runs in a goroutine of its own (line 937); the only recover of the program
\* (lines 887-895) is deferred in the goroutine of processEvents, so a panic
\* here ends the process
ReadFields ==
    /\ recreate.pc = "read_fields"
    /\ IF assertionPanics(recreate.missing)
       THEN /\ recreate' = [recreate EXCEPT !.pc = "panicked"]
            /\ proc' = "exited"
       ELSE /\ recreate' = [recreate EXCEPT !.pc = "stop"]
            /\ proc' = proc
    /\ UNCHANGED <<storeVars, lockVars, sub, launch, alloc, rng, compose, view, main>>

\* lines 778-780: docker stop --time 10
Stop(ok) ==
    /\ recreate.pc = "stop"
    /\ recreate' = Issued("stop", ok, IF ok THEN "rm" ELSE "kill",
                          "none")
    /\ UNCHANGED <<storeVars, lockVars, procVars, launch, alloc, rng, compose, view, main>>

\* lines 782-785: docker kill; an error is returned when it fails too
Kill(ok) ==
    /\ recreate.pc = "kill"
    /\ recreate' = Issued("kill", ok, AfterKill(ok),
                          IF AfterKill(ok) = "returned" THEN "error" ELSE "none")
    /\ UNCHANGED <<storeVars, lockVars, procVars, launch, alloc, rng, compose, view, main>>

\* lines 793-796: docker rm; an error is returned when it fails
Remove(ok) ==
    /\ recreate.pc = "rm"
    /\ recreate' = Issued("rm", ok, IF ok THEN "run" ELSE "returned",
                          IF ok THEN "none" ELSE "error")
    /\ UNCHANGED <<storeVars, lockVars, procVars, launch, alloc, rng, compose, view, main>>

\* lines 845-867: docker run -d; an error is returned when it fails, nil
\* otherwise
Run(ok) ==
    /\ recreate.pc = "run"
    /\ recreate' = Issued("run", ok, "returned",
                          IF ok THEN "nil" ELSE "error")
    /\ UNCHANGED <<storeVars, lockVars, procVars, launch, alloc, rng, compose, view, main>>

\* lines 1099-1101: the caller logs the error and goes on
RecreateReturned ==
    /\ recreate.pc = "returned"
    /\ recreate' = NoRecreate
    /\ UNCHANGED <<storeVars, lockVars, procVars, launch, alloc, rng, compose, view, main>>

NextRecreateCalls ==
    \/ RecreateCall
    \/ \E ok \in BOOLEAN :
          \/ LabelCheck(ok) \/ LabelUpdate(ok) \/ LabelFallback(ok)
          \/ Inspect(ok) \/ ExtractLabel(ok) \/ ExtractLabelAgain(ok)
          \/ Stop(ok) \/ Kill(ok) \/ Remove(ok) \/ Run(ok)
    \/ ReadFields
    \/ RecreateReturned

SpecRecreateCalls == InitLock /\ [][NextRecreateCalls]_vars

\* ---- main ----
\* main.go 380-385: the flags are parsed
ParseFlags ==
    /\ main.pc = "start"
    /\ \E r \in FlagRanges :
         main' = [main EXCEPT !.pc = "parsed", !.minPort = r[1], !.maxPort = r[2]]
    /\ UNCHANGED <<storeVars, lockVars, procVars, callVars>>

\* a container is started with a host port no running container is bound on,
\* declared in a descriptor or not; its start event reaches every subscription
Started(port, declared) ==
    [main EXCEPT !.cts[main.next] = [state |-> "running", hostPort |-> port,
                                     label |-> FALSE, declared |-> declared],
                 !.stores = Delivered(main.stores, main.next),
                 !.next = @ + 1]

PortFree(port) ==
    ~ \E i \in MainIds : main.cts[i].state = "running" /\ main.cts[i].hostPort = port

\* the outside user runs a container
UserStarts(port) ==
    /\ main.pc # "exited"
    /\ main.next <= MaxMainIds
    /\ PortFree(port)
    /\ main' = Started(port, 0)
    /\ UNCHANGED <<storeVars, lockVars, procVars, callVars>>

\* main.go 393-397 and lines 57-79: main creates its Store; NewContainerStore
\* refreshes once and starts listenForEvents
CreateStore ==
    /\ main.pc = "parsed"
    /\ main' = [main EXCEPT !.pc = "created",
                            !.stores = <<NewStore>>,
                            !.cts = RefreshedByNewStore(main.cts, NewStore),
                            !.used = @ \cup UsedByNewStore(main.cts, NewStore)]
    /\ UNCHANGED <<storeVars, lockVars, procVars, callVars>>

\* main.go 399-401: the flags are written into the Store main created
SetPortRange ==
    /\ main.pc = "created"
    /\ main' = [main EXCEPT !.pc = "configured",
                            !.stores[1].portRangeMin = main.minPort,
                            !.stores[1].portRangeMax = main.maxPort]
    /\ UNCHANGED <<storeVars, lockVars, procVars, callVars>>

\* main.go 403-427: compose mode; runComposeCommand is called with the Store
\* of main
StartCompose ==
    /\ main.pc = "configured"
    /\ main' = [main EXCEPT !.pc = "composing", !.mode = "compose"]
    /\ UNCHANGED <<storeVars, lockVars, procVars, callVars>>

\* main.go 325-328 and 352-355: docker-compose starts a service on the host
\* port the descriptor declares for it, which the pre-plan left as it was
ComposeUp(port) ==
    /\ main.pc = "composing"
    /\ main.next <= MaxMainIds
    /\ PortFree(port)
    /\ main' = Started(port, port)
    /\ UNCHANGED <<storeVars, lockVars, procVars, callVars>>

\* main.go 427-431: docker-compose has returned, and so does main
ComposeReturns ==
    /\ main.pc = "composing"
    /\ main' = [main EXCEPT !.pc = "exited"]
    /\ UNCHANGED <<storeVars, lockVars, procVars, callVars>>

\* main.go 434-439 and 46-51: web mode; NewApplication calls NewContainerStore
\* again and serves the Store it gets
NewApplication ==
    /\ main.pc = "configured"
    /\ main' = [main EXCEPT !.pc = "serving", !.mode = "web",
                            !.stores = Append(@, NewStore),
                            !.cts = RefreshedByNewStore(main.cts, NewStore),
                            !.used = @ \cup UsedByNewStore(main.cts, NewStore)]
    /\ UNCHANGED <<storeVars, lockVars, procVars, callVars>>

\* lines 934-937 and 965-1113: the event reader of Store n starts a handler
\* goroutine for the start event of id, and the handler runs: processed
\* check, inspect, in-range test, relocation or approval
HandleStart(n, id) ==
    LET store == main.stores[n]
        c == main.cts[id]
        range == <<store.portRangeMin, store.portRangeMax>>
        base == [main EXCEPT !.stores[n].queue = @ \ {id}, !.dispatched[id] = @ + 1]
    IN  /\ main.pc # "exited"
        /\ n \in DOMAIN main.stores
        /\ id \in store.queue
        /\ IF id \in store.processedContainers \/ (c.state = "running" /\ c.label)
           THEN main' = [base EXCEPT !.stores[n].processedContainers = @ \cup {id}]
           ELSE IF c.state # "running"
           THEN main' = base
           ELSE IF InRangeOf(store, c.hostPort)
           THEN main' = [base EXCEPT !.stores[n].processedContainers = @ \cup {id},
                                     !.cts[id].label = TRUE,
                                     !.used = @ \cup {range}]
           ELSE \E newPort \in {p \in store.portRangeMin..(store.portRangeMax - 1) :
                                    PortFree(p)} :
                   IF main.next <= MaxMainIds
                   THEN main' = [base EXCEPT
                          !.stores = [m \in DOMAIN main.stores |->
                                        [base.stores[m] EXCEPT
                                           !.queue = @ \cup {main.next},
                                           !.processedContainers =
                                              IF m = n THEN @ \cup {id, main.next} ELSE @]],
                          !.cts[id].state = "removed",
                          !.cts[main.next] = [state |-> "running", hostPort |-> newPort,
                                              label |-> TRUE, declared |-> c.declared],
                          !.next = @ + 1,
                          !.used = @ \cup {range},
                          !.issued = @ \cup {id}]
                   ELSE main' = [base EXCEPT
                          !.stores[n].processedContainers = @ \cup {id},
                          !.cts[id].state = "removed",
                          !.used = @ \cup {range},
                          !.issued = @ \cup {id}]
        /\ UNCHANGED <<storeVars, lockVars, procVars, callVars>>

NextMain ==
    \/ ParseFlags
    \/ \E port \in MainPorts : UserStarts(port)
    \/ CreateStore
    \/ SetPortRange
    \/ StartCompose
    \/ \E port \in MainPorts : ComposeUp(port)
    \/ ComposeReturns
    \/ NewApplication
    \/ \E n \in 1..2, id \in MainIds : HandleStart(n, id)

SpecMain == InitLock /\ [][NextMain]_vars

\* ---- the compose subcommand ----
\* main.go 313-317: runComposeCommand calls CheckComposePortConflicts, which
\* reads the services of the descriptor (lines 1240-1256)
ComposeStart ==
    /\ compose.pc = "idle"
    /\ \E d \in Descriptors, busy \in BusySets :
         compose' = [NoCompose EXCEPT
                       !.pc = "checking", !.descriptor = d, !.busy = busy,
                       !.emitted = d,
                       !.rewrites = [s \in Services |-> [n \in DOMAIN d[s] |-> 0]]]
    /\ UNCHANGED <<storeVars, lockVars, procVars, launch, alloc, rng, view, recreate, main>>

\* lines 1273-1350: the next port entry of a service is checked; an entry in
\* use gets a new port under the key "<service>:<hostPort>"
CheckEntry(s) ==
    /\ compose.pc = "checking"
    /\ compose.visited[s] < Len(compose.descriptor[s])
    /\ LET e == compose.descriptor[s][compose.visited[s] + 1]
           next == [compose EXCEPT !.visited[s] = @ + 1]
       IN  IF Readable(e) /\ inUse(e.published, ReadProtocol(e), compose.busy)
           THEN \E newPort \in allocateRandomPort(compose.busy) :
                   compose' = [next EXCEPT
                     !.marked = @ \cup {<<s, compose.visited[s] + 1>>},
                     !.remappings =
                        [k \in (DOMAIN compose.remappings) \cup {<<s, e.published>>} |->
                            IF k = <<s, e.published>> THEN newPort
                            ELSE compose.remappings[k]]]
           ELSE compose' = next
    /\ UNCHANGED <<storeVars, lockVars, procVars, launch, alloc, rng, view, recreate, main>>

\* line 1353 and main.go 322-334: the mapping is returned; without an entry the
\* original descriptor is run, otherwise GenerateRemappedComposeFile is called
CheckReturns ==
    /\ compose.pc = "checking"
    /\ \A s \in Services : compose.visited[s] = Len(compose.descriptor[s])
    /\ compose' = [compose EXCEPT
                     !.pc = IF compose.remappings = EmptyMap THEN "run" ELSE "generating",
                     !.pending = DOMAIN compose.remappings]
    /\ UNCHANGED <<storeVars, lockVars, procVars, launch, alloc, rng, view, recreate, main>>

\* lines 1376-1424: one remapping is applied to every port entry of its
\* service; the remappings are taken in the order of a Go map range
ApplyRemapping(key) ==
    /\ compose.pc = "generating"
    /\ key \in compose.pending
    /\ LET s == key[1]
           old == compose.emitted[s]
           new == [n \in DOMAIN old |-> Rewritten(old[n], key[2], compose.remappings[key])]
       IN  compose' = [compose EXCEPT
                         !.emitted[s] = new,
                         !.pending = @ \ {key},
                         !.rewrites[s] =
                            [n \in DOMAIN old |->
                                IF Readable(old[n]) /\ old[n].published = key[2]
                                THEN @[n] + 1 ELSE @[n]]]
    /\ UNCHANGED <<storeVars, lockVars, procVars, launch, alloc, rng, view, recreate, main>>

\* lines 1426-1451: the descriptor is written to the temporary file
GenerateReturns ==
    /\ compose.pc = "generating"
    /\ compose.pending = {}
    /\ compose' = [compose EXCEPT !.pc = "run"]
    /\ UNCHANGED <<storeVars, lockVars, procVars, launch, alloc, rng, view, recreate, main>>

\* main.go 326-329 and 351-354: docker-compose runs with the descriptor
ComposeRun ==
    /\ compose.pc = "run"
    /\ compose' = NoCompose
    /\ UNCHANGED <<storeVars, lockVars, procVars, launch, alloc, rng, view, recreate, main>>

NextCompose ==
    \/ ComposeStart
    \/ \E s \in Services : CheckEntry(s)
    \/ CheckReturns
    \/ \E key \in Services \X (1..portRangeMax) : ApplyRemapping(key)
    \/ GenerateReturns
    \/ ComposeRun

\* the subcommand runs against the store as NewContainerStore leaves it
SpecCompose == Init /\ [][NextCompose]_vars

\* ---- one draw of allocateRandomPort under a configured range ----
\* main.go 380-401: the -min and -max flags are stored as they are given
Configure ==
    /\ rng.pc = "idle"
    /\ \E min \in 1..MaxConfigPort, max \in 1..MaxConfigPort :
         /\ min <= max
         /\ rng' = [pc |-> "configured", min |-> min, max |-> max, port |-> 0]
    /\ UNCHANGED <<storeVars, lockVars, procVars, launch, alloc, compose, view, recreate, main>>

\* line 612: rand.Intn(max-min) + min returns a value
DrawReturns ==
    /\ rng.pc = "configured"
    /\ \E r \in randIntn(rng.max - rng.min) :
         rng' = [rng EXCEPT !.pc = "drawn", !.port = r + rng.min]
    /\ UNCHANGED <<storeVars, lockVars, procVars, launch, alloc, compose, view, recreate, main>>

\* line 612: rand.Intn panics, its argument is not positive
DrawPanics ==
    /\ rng.pc = "configured"
    /\ randIntn(rng.max - rng.min) = {}
    /\ rng' = [rng EXCEPT !.pc = "panicked"]
    /\ UNCHANGED <<storeVars, lockVars, procVars, launch, alloc, compose, view, recreate, main>>

\* the next run of the program
DrawAgain ==
    /\ rng.pc \in {"drawn", "panicked"}
    /\ rng' = NoRng
    /\ UNCHANGED <<storeVars, lockVars, procVars, launch, alloc, compose, view, recreate, main>>

NextDraw == Configure \/ DrawReturns \/ DrawPanics \/ DrawAgain

SpecDraw == InitLock /\ [][NextDraw]_vars

\* ---- call-level steps of allocateRandomPort ----
\* line 610: allocateRandomPort is called
AllocCall ==
    /\ alloc.pc = "idle"
    /\ \E busy \in SUBSET Draw :
         alloc' = [pc |-> "loop", busy |-> busy, draws |-> <<>>, result |-> 0]
    /\ UNCHANGED <<storeVars, lockVars, procVars, launch, rng, compose, view, recreate, main>>

\* lines 611-618: one iteration of the loop; the candidate is returned when
\* isPortAvailable accepts it
AllocAttempt ==
    /\ alloc.pc = "loop"
    /\ Len(alloc.draws) < maxAttempts
    /\ \E port \in Draw :
         alloc' = IF isPortAvailable(port, alloc.busy)
                  THEN [alloc EXCEPT !.pc = "returned",
                                     !.draws = Append(alloc.draws, port),
                                     !.result = port]
                  ELSE [alloc EXCEPT !.draws = Append(alloc.draws, port)]
    /\ UNCHANGED <<storeVars, lockVars, procVars, launch, rng, compose, view, recreate, main>>

\* lines 620-621: after the loop a further draw is returned as it is
AllocFallback ==
    /\ alloc.pc = "loop"
    /\ Len(alloc.draws) = maxAttempts
    /\ \E port \in Draw :
         alloc' = [alloc EXCEPT !.pc = "returned",
                                !.draws = Append(alloc.draws, port),
                                !.result = port]
    /\ UNCHANGED <<storeVars, lockVars, procVars, launch, rng, compose, view, recreate, main>>

\* the caller takes the result
AllocReturn ==
    /\ alloc.pc = "returned"
    /\ alloc' = NoAlloc
    /\ UNCHANGED <<storeVars, lockVars, procVars, launch, rng, compose, view, recreate, main>>

NextAlloc == AllocCall \/ AllocAttempt \/ AllocFallback \/ AllocReturn

\* the allocator runs against the store as NewContainerStore leaves it
SpecAlloc == Init /\ [][NextAlloc]_vars

NextRecreate == RemapInspect \/ RemapBuildArgs \/ RemapRun

SpecRecreate == InitLock /\ [][NextRecreate]_vars

TypeOK ==
    /\ nextId \in 1..(MaxIds + 1)
    /\ processedContainers \subseteq Ids
    /\ DOMAIN containers \subseteq Ids
    /\ DOMAIN portMappings \subseteq DOMAIN containers
    /\ \A i \in Ids : docker[i].state \in {"gone", "running", "exited"}

\* ---------------------------------------------------------------------------
\* Claims
\* ---------------------------------------------------------------------------
Replacements == {i \in Ids : origin[i] = "replacement"}
RefreshPcs == {"rf_list", "rf_snapshot", "rf_build", "rf_swap"}

\* C1: restart loop absent.  A replacement E' produced by a remap of E is the
\* only replacement of E, and the supervisor never allocates for, stops,
\* removes or recreates E', whenever the start event of E' is handled.
C1_RestartLoopAbsent ==
    \A i \in Replacements :
        /\ i \notin touched
        /\ Cardinality({j \in Replacements : parent[j] = parent[i]}) = 1
        /\ origin[parent[i]] # "replacement"
        /\ \A w \in Workers : workers[w].id = i => ~workers[w].acted

\* the start event of a replacement that still has a binding below the range
\* has been handled up to the handler's final swap
C1_Witness ==
    \E w \in Workers :
        /\ workers[w].handler = "start"
        /\ workers[w].id \in Replacements
        /\ workers[w].pc = "rf_swap"
        /\ \E k \in Keys : docker[workers[w].id].ports[k] = 1

\* the ids on which the step of worker w calls isContainerProcessed
CalledIds(w) ==
    IF workers[w].pc = "hs_check" THEN {workers[w].id}
    ELSE IF workers[w].pc = "rf_build"
         THEN {i \in DOMAIN workers[w].listing :
                    Exists(i) /\ i \notin DOMAIN workers[w].currentPortMappings}
         ELSE {}

\* C2: processed stickiness.  Once isContainerProcessed(id) has returned true
\* and while id has stayed in the runtime listing, every call of
\* isContainerProcessed(id) returns true.
C2_ProcessedSticky ==
    [][\A w \in Workers :
          workers'[w] # workers[w] =>
              \A i \in CalledIds(w) \cap sticky : isContainerProcessed(i)]_vars

\* C3: a container that is in the processed set when its start event is
\* handled is not re-evaluated: after the check the handler is in its refresh
\* and has issued no allocate, stop, kill, remove or run.
C3_ProcessedNotReevaluated ==
    \A w \in Workers :
        (workers[w].handler = "start" /\ workers[w].procAtCheck) =>
            /\ workers[w].pc \in RefreshPcs
            /\ ~workers[w].acted
            /\ workers[w].todo = NoPorts

\* a processed container that still has a binding below the range went
\* through its start handler
C3_Witness ==
    \E w \in Workers :
        /\ workers[w].handler = "start"
        /\ workers[w].procAtCheck
        /\ workers[w].pc = "rf_swap"
        /\ \E k \in Keys : docker[workers[w].id].ports[k] = 1

\* C4: no double-binding.  No two bindings of tracked containers have the
\* same (host port, protocol) pair.
C4_NoDoubleBinding ==
    \A i, j \in DOMAIN containers : \A k, l \in Keys :
        (/\ <<i, k>> # <<j, l>>
         /\ containers[i][k].HostPort # 0
         /\ containers[i][k].HostPort = containers[j][l].HostPort
         /\ Protocol(k) = Protocol(l)) => FALSE

\* C5: dynamic-range discipline.  Every port allocateRandomPort returned for
\* a relocation, and every port a remap wrote into a replacement's binding,
\* lies in [portRangeMin, portRangeMax].
C5_DynamicRangeDiscipline ==
    /\ \A w \in Workers :
        /\ \A k \in BoundKeys(workers[w].todo) :
              workers[w].todo[k] >= portRangeMin /\ workers[w].todo[k] <= portRangeMax
        /\ workers[w].newPort # 0 =>
              workers[w].newPort >= portRangeMin /\ workers[w].newPort <= portRangeMax
    /\ \A i \in Replacements :
        /\ reloc[i].new >= portRangeMin /\ reloc[i].new <= portRangeMax
        /\ Exists(i) => docker[i].ports[reloc[i].key] = reloc[i].new

\* a replacement runs on its relocated port
C5_Witness ==
    \E i \in Replacements : Running(i) /\ docker[i].ports[reloc[i].key] = reloc[i].new

\* C6: after a relocation the Store record of the replacement shows, for the
\* relocated binding, current = the allocated port and original = the host
\* port before the relocation.
C6_RelocatedOriginalKept ==
    \A i \in Replacements :
        i \in DOMAIN containers =>
            containers[i][reloc[i].key] =
                [HostPort |-> reloc[i].new, OriginalPort |-> reloc[i].old]

\* C7: original monotonicity.  While (id, container port, protocol) stays
\* tracked, no step changes the binding's original host port.
C7_OriginalMonotone ==
    [][\A i \in (DOMAIN containers) \cap (DOMAIN containers') : \A k \in Keys :
          (containers[i][k].OriginalPort # 0 /\ containers'[i][k].OriginalPort # 0) =>
              containers'[i][k].OriginalPort = containers[i][k].OriginalPort]_vars

\* the other tracked containers hold (p, q)
HeldByOther(id, p, q) ==
    \E j \in (DOMAIN containers) \ {id} :
        \E l \in Keys : containers[j][l].HostPort = p /\ l[2] = q

C9_S1NoRecreation ==
    (/\ origin[1] = "user"
     /\ docker[1].ports = Bind(1, 0)
     /\ ~docker[1].eph) =>
        /\ 1 \notin touched
        /\ \A w \in Workers : workers[w].id = 1 => ~workers[w].acted
        /\ 1 \in DOMAIN containers =>
              containers[1][<<80, "tcp">>] = [HostPort |-> 1, OriginalPort |-> 1]

\* C10: already-dynamic rule.  The start handler of an unprocessed container
\* whose bound host ports all lie in the range issues no stop, remove or run,
\* marks the container processed, refreshes, and its final swap leaves each
\* binding of the container with original = current.
C10_AlreadyDynamic ==
    [][\A w \in Workers :
          LET id == workers[w].id
          IN  /\ (/\ workers[w].pc = "hs_eval"
                  /\ workers'[w] # workers[w]
                  /\ Exists(id)
                  /\ BoundKeys(docker[id].ports) # {}
                  /\ \A k \in BoundKeys(docker[id].ports) :
                        docker[id].ports[k] >= portRangeMin
                        /\ docker[id].ports[k] <= portRangeMax)
                 => /\ workers'[w].pc = "rf_list"
                    /\ ~workers'[w].acted
                    /\ id \in processedContainers'
                    /\ touched' = touched
              /\ (/\ workers[w].pc = "rf_swap"
                  /\ workers[w].branch = "inrange"
                  /\ workers'[w] # workers[w]
                  /\ id \in DOMAIN containers')
                 => \A k \in Keys :
                        containers'[id][k].OriginalPort = containers'[id][k].HostPort]_vars

\* no event waits and no handler runs
Quiescent == events = {} /\ \A w \in Workers : workers[w].pc = "idle"

\* scenario S2: A (id 1) ran on host port 1/tcp when the supervisor started,
\* the user ran B (id 2) on the same host port, and B's replacement runs
S2Handled ==
    /\ origin[1] = "initial" /\ Running(1) /\ docker[1].ports = Bind(1, 0)
    /\ origin[2] = "user"
    /\ \E i \in Replacements :
          parent[i] = 2 /\ Running(i) /\ reloc[i].old = 1 /\ reloc[i].key = <<80, "tcp">>
    /\ Quiescent

\* C11: scenario S2.  Once the start event of B and the events it caused are
\* handled, the Store holds exactly A and the replacement of B, and B is in
\* none of the three maps.
C11_S2StoreContents ==
    S2Handled =>
        /\ DOMAIN containers = {1} \cup {i \in Replacements : parent[i] = 2}
        /\ 2 \notin DOMAIN portMappings
        /\ 2 \notin processedContainers

\* the user started container 1 with an empty Store, and its start event
\* was delivered once, or twice, and nothing else happened outside
FedOnce == origin[1] = "user" /\ envSteps = 1 /\ refed = {}
FedTwice == origin[1] = "user" /\ refed = {1}

\* C12: idempotent re-start handling.  Whether the start event of a container
\* is delivered once or twice, when everything is handled the supervisor has
\* recreated the container at most once and the Store holds running
\* containers only.
C12_IdempotentRestart ==
    ((FedOnce \/ FedTwice) /\ Quiescent) =>
        /\ Cardinality(Replacements) <= 1
        /\ touched \subseteq {1}
        /\ \A i \in DOMAIN containers : Running(i)
        /\ \A i \in DOMAIN portMappings : Running(i)
        /\ \A i \in processedContainers : Running(i)

\* lock-level helpers: task t is at a read, a write, a runtime call
Reads(t, m) == Cur(t).op = "read" /\ Cur(t).what = m
Writes(t, m) == Cur(t).op = "write" /\ Cur(t).what = m
Holds(t) == mu.writer = t \/ t \in mu.readers
StoreReaders == {"GetContainers", "GetContainersByComposeProject"}
MapNames == {"containers", "portMappings", "processedContainers"}

\* C13: snapshot consistency.  The refresh and the stop handler write the
\* three maps while holding the mutex exclusively, and while GetContainers or
\* GetContainersByComposeProject reads, under the read lock, no task is
\* writing any of the three maps.
C13_SnapshotConsistency ==
    /\ \A t \in {"refreshContainers", "handleContainerStop"} :
          Cur(t).op = "write" => (mu.writer = t /\ mu.readers = {})
    /\ \A r \in StoreReaders :
          Reads(r, "containers") =>
              /\ r \in mu.readers
              /\ \A t \in LockTasks : Cur(t).op # "write"

\* GetContainers reads while the refresh waits at its swap for the mutex
C13_Witness ==
    /\ Reads("GetContainers", "containers")
    /\ lpc["refreshContainers"] = 7
    /\ Cur("refreshContainers").op \in {"Lock", "RLock"}

\* C14: the three maps are only accessed under the mutex; in particular no
\* task reads the containers map, without holding the mutex, while the stop
\* handler or the refresh writes it.
C14_NoReadDuringWrite ==
    \A t \in LockTasks : \A m \in MapNames :
        (Reads(t, m) /\ ~Holds(t)) =>
            \A u \in {"handleContainerStop", "refreshContainers"} : ~Writes(u, m)

\* C15: lock discipline.  No task is at a runtime call while it holds the
\* mutex in shared or exclusive mode.
C15_NoRuntimeCallUnderLock ==
    \A t \in LockTasks : Cur(t).op = "call" => ~Holds(t)

\* the refresh is at its docker inspect calls after it released the read lock,
\* while the stop handler holds the mutex
C15_Witness ==
    /\ lpc["refreshContainers"] = 6
    /\ Cur("refreshContainers").op = "call"
    /\ mu.writer = "handleContainerStop"

\* C16: a refresh whose listing fails leaves the containers, port-index and
\* processed maps as they were, and the handler that called it returns: its
\* slot is free for the next event and the pending events are kept.
C16_FailedListKeepsState ==
    [][\A w \in Workers :
          (workers[w].pc = "rf_list" /\ workers'[w].pc # "rf_snapshot"
           /\ workers'[w] # workers[w]) =>
              /\ containers' = containers
              /\ portMappings' = portMappings
              /\ processedContainers' = processedContainers
              /\ workers'[w].pc = "idle"
              /\ events' = events]_vars

\* a listing failed while the Store tracked a container, and the Store still
\* tracks it
C16_Witness ==
    \E w \in Workers :
        /\ workers[w].pc = "idle" /\ workers[w].branch = "listfailed"
        /\ containers # EmptyMap
        /\ processedContainers # {}

\* C17: on a die, stop, kill, destroy or remove event the handler deletes the
\* id from the containers map, the port index and the processed set in one
\* step, leaves the entries of every other id as they were, and has not
\* started its refresh before that step.
C17_StopDeletesOnlyId ==
    [][\A w \in Workers :
          LET id == workers[w].id
          IN  (workers[w].pc = "st_delete" /\ workers'[w] # workers[w]) =>
                  /\ workers[w].handler = "stop"
                  /\ workers[w].listing = EmptyMap /\ workers[w].newContainers = EmptyMap
                  /\ workers'[w].pc = "rf_list"
                  /\ id \notin DOMAIN containers'
                  /\ id \notin DOMAIN portMappings'
                  /\ id \notin processedContainers'
                  /\ DOMAIN containers' = (DOMAIN containers) \ {id}
                  /\ DOMAIN portMappings' = (DOMAIN portMappings) \ {id}
                  /\ processedContainers' = processedContainers \ {id}
                  /\ \A j \in DOMAIN containers' : containers'[j] = containers[j]
                  /\ \A j \in DOMAIN portMappings' : portMappings'[j] = portMappings[j]]_vars

\* a stop handler has deleted a container the supervisor removed and is about
\* to refresh, while another container is tracked and processed
C17_Witness ==
    \E w \in Workers :
        /\ workers[w].handler = "stop" /\ workers[w].pc = "rf_list"
        /\ workers[w].id \in touched
        /\ workers[w].id \notin DOMAIN containers
        /\ workers[w].id \notin processedContainers
        /\ \E j \in DOMAIN containers : j # workers[w].id /\ j \in processedContainers

\* C18: a record is inserted on a start event.  When the start handler of an
\* id returns and the container is running, the Store has a record of the id.
C18_StartInsertsRecord ==
    [][\A w \in Workers :
          (/\ workers[w].handler = "start"
           /\ workers[w].pc # "idle" /\ workers'[w].pc = "idle"
           /\ docker'[workers[w].id].state = "running") =>
              workers[w].id \in DOMAIN containers']_vars

\* the container docker run creates from the arguments: an argument left out
\* gives the attribute its empty or default value; "-p" without an address
\* binds all interfaces
LaunchSpec(args) ==
    [Name |-> args.name,
     Image |-> args.image,
     Env |-> args.env,
     Binds |-> args.volumes,
     NetworkMode |-> IF args.network = <<>> THEN "default" ELSE args.network[1],
     RestartPolicy |->
        IF args.restart = <<>> THEN [Name |-> "", MaximumRetryCount |-> 0]
        ELSE [Name |-> args.restart[1].name,
              MaximumRetryCount |-> IF args.restart[1].count = <<>> THEN 0
                                    ELSE args.restart[1].count[1]],
     Labels |-> [k \in {a[1] : a \in args.labels} |->
                    (CHOOSE a \in args.labels : a[1] = k)[2]],
     Published |-> {[HostIp |-> IF a.ip = <<>> THEN "" ELSE a.ip[1],
                     HostPort |-> a.hostPort, port |-> a.port] : a \in args.publish}]

\* a host address with the all-interfaces spellings "" and 0.0.0.0 identified
Address(ip) == IF ip = "0.0.0.0" THEN "" ELSE ip

\* C19: recreation preserves attributes.  Once remapContainerPort has built the
\* docker run arguments, the container they launch has the inspected name
\* without its leading '/', the inspected image, environment list, mounts as
\* source:destination pairs, network mode, restart policy (name, and
\* MaximumRetryCount for on-failure) and labels; what is new is only the
\* sentinel label and the binding of the remapped port to the new host port.
C19_RecreationPreserves ==
    launch.pc = "built" =>
        LET o == launch.info
            l == LaunchSpec(launch.createArgs)
        IN  /\ \/ o.Name = <<"/">> \o l.Name
               \/ o.Name[1] # "/" /\ o.Name = l.Name
            /\ l.Image = o.Image
            /\ l.Env = o.Env
            /\ Len(l.Binds) = Len(o.Mounts)
            /\ \A n \in 1..Len(o.Mounts) :
                  l.Binds[n] = <<o.Mounts[n].Source, o.Mounts[n].Destination>>
            /\ l.NetworkMode = o.NetworkMode
            /\ l.RestartPolicy.Name = o.RestartPolicy.Name
            /\ o.RestartPolicy.Name = "on-failure" =>
                  l.RestartPolicy.MaximumRetryCount = o.RestartPolicy.MaximumRetryCount
            /\ DOMAIN l.Labels = (DOMAIN o.Labels) \cup {SentinelLabel}
            /\ \A k \in (DOMAIN o.Labels) \ {SentinelLabel} : l.Labels[k] = o.Labels[k]
            /\ l.Labels[SentinelLabel] = "true"
            /\ \A b \in l.Published :
                  IF b.port = launch.key
                  THEN b.HostPort = launch.newHostPort /\ b.HostIp = ""
                  ELSE /\ b.port \in DOMAIN o.PortBindings
                       /\ \E n \in DOMAIN o.PortBindings[b.port] :
                             /\ o.PortBindings[b.port][n].HostPort = b.HostPort
                             /\ Address(o.PortBindings[b.port][n].HostIp) = b.HostIp
            /\ \E b \in l.Published : b.port = launch.key

\* the arguments have been built for a container with a slash-prefixed name, an
\* environment, two mounts, a network of its own, the policy on-failure:2, a
\* label of its own and a second published port
C19_Witness ==
    /\ launch.pc = "built"
    /\ Head(launch.info.Name) = "/"
    /\ Len(launch.info.Env) = 2
    /\ Len(launch.info.Mounts) = 2
    /\ launch.info.NetworkMode = "host"
    /\ launch.info.RestartPolicy = RestartPolicy("on-failure", 2)
    /\ "app" \in DOMAIN launch.info.Labels
    /\ DOMAIN launch.info.PortBindings = Keys
    /\ launch.createArgs.name = Tail(launch.info.Name)

\* the port is the host port of a tracked binding, whatever its protocol
TrackedPort(p) ==
    \E i \in DOMAIN containers : \E k \in Keys : containers[i][k].HostPort = p

\* the candidate passes both checks: no tracked binding, and the listen succeeds
Acceptable(p) == ~ TrackedPort(p) /\ p \notin alloc.busy

\* C20: allocator acceptance policy.  allocateRandomPort makes at most
\* maxAttempts checked draws; while it loops every candidate so far was
\* rejected; a result returned from the loop is the first candidate with no
\* tracked binding of any protocol and a successful listen; only after
\* maxAttempts rejections is one further draw returned unchecked.
C20_AllocatorPolicy ==
    /\ Len(alloc.draws) <= maxAttempts + 1
    /\ alloc.pc = "loop" =>
          /\ Len(alloc.draws) <= maxAttempts
          /\ \A n \in 1..Len(alloc.draws) : ~ Acceptable(alloc.draws[n])
    /\ alloc.pc = "returned" =>
          /\ alloc.draws # <<>>
          /\ alloc.result = alloc.draws[Len(alloc.draws)]
          /\ \A n \in 1..(Len(alloc.draws) - 1) : ~ Acceptable(alloc.draws[n])
          /\ Len(alloc.draws) <= maxAttempts => Acceptable(alloc.result)

\* the allocator has returned its second candidate after rejecting the first
\* one for a tracked udp binding on a port where a listen would succeed
C20_Witness ==
    /\ alloc.pc = "returned"
    /\ Len(alloc.draws) = 2
    /\ alloc.draws[1] \notin alloc.busy
    /\ \E i \in DOMAIN containers : containers[i][<<53, "udp">>].HostPort = alloc.draws[1]
    /\ alloc.result # alloc.draws[1]

\* C21: allocator draw domain.  For a configured range with min <= max the
\* values one draw can produce are exactly min..max, and a draw that was made
\* has returned a port of that interval.
C21_DrawDomain ==
    /\ rng.pc = "configured" =>
          {r + rng.min : r \in randIntn(rng.max - rng.min)} = rng.min..rng.max
    /\ rng.pc # "panicked"
    /\ rng.pc = "drawn" => rng.port \in rng.min..rng.max

\* the (host port, protocol) a port entry declares, whatever its form
DeclaredProtocol(e) == IF e.protocol = "" THEN "tcp" ELSE e.protocol

\* the pair is in conflict at planning time: a tracked binding holds the same
\* pair, or a listen on the host port fails
Conflicting(port, protocol) ==
    \/ \E i \in DOMAIN containers :
          \E k \in Keys : containers[i][k].HostPort = port /\ k[2] = protocol
    \/ port \in compose.busy

\* CheckComposePortConflicts has returned its mapping
Planned == compose.pc \in {"generating", "run"}

\* C22: compose pre-plan mapping.  The returned mapping has an entry
\* "service:hostport" exactly for the declared host ports of the service that
\* are in conflict, and every new port lies in [portRangeMin, portRangeMax].
C22_PrePlanMapping ==
    Planned =>
        /\ \A s \in Services, h \in 1..portRangeMax :
              <<s, h>> \in DOMAIN compose.remappings <=>
                  \E n \in DOMAIN compose.descriptor[s] :
                     /\ compose.descriptor[s][n].published = h
                     /\ Conflicting(h, DeclaredProtocol(compose.descriptor[s][n]))
        /\ \A k \in DOMAIN compose.remappings :
              /\ compose.remappings[k] >= portRangeMin
              /\ compose.remappings[k] <= portRangeMax

\* C23: compose conflict predicate.  A port entry the pre-planner has checked
\* is marked conflicting if and only if a tracked binding holds its (host port,
\* protocol) pair or a listen on its host port fails; a tracked binding of the
\* other protocol on the port does not mark it.
C23_ConflictPredicate ==
    \A s \in Services :
        \A n \in 1..compose.visited[s] :
            LET e == compose.descriptor[s][n]
            IN  e.ip = "" =>
                   (<<s, n>> \in compose.marked
                       <=> Conflicting(e.published, DeclaredProtocol(e)))

\* the port entries of a descriptor, by position
Positions(d) == {<<s, n>> : s \in Services, n \in 1..2} \cap
                {x \in Services \X (1..2) : x[2] <= Len(d[x[1]])}
Declared(d, x) == <<d[x[1]][x[2]].published, DeclaredProtocol(d[x[1]][x[2]])>>

\* C24: the descriptor emitted by the pre-planner is conflict-free.  No (host
\* port, protocol) it declares is a binding tracked in the Store at planning
\* time, and no two of its port entries declare the same (host port, protocol).
C24_EmittedConflictFree ==
    compose.pc = "run" =>
        /\ \A x \in Positions(compose.emitted) :
              ~ \E i \in DOMAIN containers : \E k \in Keys :
                    /\ containers[i][k].HostPort = Declared(compose.emitted, x)[1]
                    /\ k[2] = Declared(compose.emitted, x)[2]
        /\ \A x, y \in Positions(compose.emitted) :
              x # y => Declared(compose.emitted, x) # Declared(compose.emitted, y)

\* C25: emitted-descriptor frame.  In the descriptor that is run, an entry
\* differs from the input entry at its position only in its host port, and only
\* when the mapping names its service and host port, in which case it has the
\* mapped port; it keeps its form and the type of its value; the lists keep
\* their lengths; and no entry was rewritten more than once.
C25_EmittedFrame ==
    compose.pc = "run" =>
        \A s \in Services :
            /\ Len(compose.emitted[s]) = Len(compose.descriptor[s])
            /\ \A n \in 1..Len(compose.descriptor[s]) :
                  LET e == compose.descriptor[s][n]
                      f == compose.emitted[s][n]
                  IN  /\ f.form = e.form /\ f.kind = e.kind /\ f.ip = e.ip
                      /\ f.target = e.target /\ f.protocol = e.protocol
                      /\ f.published # e.published =>
                            /\ <<s, e.published>> \in DOMAIN compose.remappings
                            /\ f.published = compose.remappings[<<s, e.published>>]
                      /\ compose.rewrites[s][n] <= 1

\* C26: shutdown lets in-flight workers finish.  The process never is exited
\* while a worker is inside a remap that has stopped or removed the original
\* container and has not yet launched the replacement.
C26_ShutdownLetsWorkersFinish ==
    proc = "exited" => \A w \in Workers : workers[w].pc \notin {"rm_rm", "rm_run"}

\* C27: event-stream re-subscription.  Whenever no docker events process is
\* running and Close has not been called, a subscription is eventually
\* established (or Close is called); and once Close has been called no
\* docker events process is started.
C27_Resubscription ==
    /\ (~ sub.done /\ sub.eventCmd # "running") ~> (sub.eventCmd = "running" \/ sub.done)
    /\ [][sub.done => ~ (sub.eventCmd # "running" /\ sub'.eventCmd = "running")]_vars

\* the name without its leading slash has a non-empty first part before a
\* "_", or else a non-empty first part before a "-" and a second "-"
NamePrefix(name) ==
    LET n == IF name[1] = "/" THEN SubSeq(name, 2, Len(name)) ELSE name
        first(sep) == CHOOSE k \in 1..Len(n) : n[k] = sep /\ \A m \in 1..(k - 1) : n[m] # sep
        count(sep) == Cardinality({k \in 1..Len(n) : n[k] = sep})
    IN  IF count("_") >= 1 /\ first("_") > 1 THEN SubSeq(n, 1, first("_") - 1)
        ELSE IF count("-") >= 2 /\ first("-") > 1 THEN SubSeq(n, 1, first("-") - 1)
        ELSE <<>>

\* C28: the group view is a partition.  Every tracked container is in exactly
\* one bucket; the buckets together are the containers GetContainers returned;
\* a container with a group name is in the bucket of that name; a container is
\* in the bucket "standalone" exactly when it has no group name and none can
\* be inferred from its name prefix.
C28_GroupViewPartition ==
    view.pc = "grouped" =>
        /\ \A i \in DOMAIN view.store :
              Cardinality({b \in DOMAIN view.projects : i \in view.projects[b]}) = 1
        /\ UNION {view.projects[b] : b \in DOMAIN view.projects} = view.all
        /\ \A i \in DOMAIN view.store :
              view.store[i].label # <<>> => i \in view.projects[view.store[i].label]
        /\ \A i \in DOMAIN view.store :
              (/\ StandaloneBucket \in DOMAIN view.projects
               /\ i \in view.projects[StandaloneBucket])
              <=> (view.store[i].label = <<>> /\ NamePrefix(view.store[i].Names) = <<>>)

\* the bindings the original of replacement r had: those of r with the
\* relocated key back on its old host port
BindingsBefore(r) == [docker'[r].ports EXCEPT ![reloc'[r].key] = reloc'[r].old]

\* C29: all scheduled relocations are carried out.  When a start handler that
\* scheduled relocations returns, a running replacement of its container whose
\* original had two or more bindings outside [portRangeMin, portRangeMax] has
\* every host port inside the range.
C29_AllRelocationsDone ==
    [][\A w \in Workers :
          (/\ workers[w].handler = "start" /\ workers[w].branch = "remap"
           /\ workers[w].pc # "idle" /\ workers'[w].pc = "idle") =>
              \A r \in Ids :
                 (/\ parent'[r] = workers[w].id
                  /\ docker'[r].state = "running"
                  /\ Cardinality({k \in BoundKeys(BindingsBefore(r)) :
                                     ~ InRange(BindingsBefore(r)[k])}) >= 2) =>
                     \A k \in BoundKeys(docker'[r].ports) : InRange(docker'[r].ports[k])]_vars

\* the calls of the recreation itself, without the label lookups and updates
IsRecreationCall(c) == c.call \in {"inspect", "stop", "kill", "rm", "run"}
RecreationCalls == SelectSeq(recreate.issued, IsRecreationCall)

\* C30: recreation ordering and failure.  The recreation calls of one remap
\* are issued in the order inspect, stop, kill (only after a failed stop),
\* rm, run, each only after the one before it succeeded (a successful kill
\* counts for the stop); after a failed inspect, kill, rm or run no call at
\* all is issued and the remap returns an error; it returns nil only after a
\* successful run.
C30_RecreationOrder ==
    LET calls == RecreationCalls
        n == Len(calls)
    IN  /\ n >= 1 => calls[1].call = "inspect"
        /\ \A m \in 1..(n - 1) :
              \/ calls[m].call = "inspect" /\ calls[m].ok /\ calls[m + 1].call = "stop"
              \/ calls[m].call = "stop" /\ calls[m].ok /\ calls[m + 1].call = "rm"
              \/ calls[m].call = "stop" /\ ~ calls[m].ok /\ calls[m + 1].call = "kill"
              \/ calls[m].call = "kill" /\ calls[m].ok /\ calls[m + 1].call = "rm"
              \/ calls[m].call = "rm" /\ calls[m].ok /\ calls[m + 1].call = "run"
        /\ \A m \in 1..Len(recreate.issued) :
              LET c == recreate.issued[m]
              IN  (~ c.ok /\ c.call \in {"inspect", "kill", "rm"}) \/ c.call = "run" =>
                     /\ m = Len(recreate.issued)
                     /\ recreate.pc = "returned"
                     /\ recreate.result = IF c.ok THEN "nil" ELSE "error"
        /\ recreate.pc = "returned" =>
              /\ n >= 1
              /\ recreate.result \in {"nil", "error"}
              /\ recreate.result = "nil" <=> (calls[n].call = "run" /\ calls[n].ok)
              /\ recreate.result = "error" =>
                    ~ calls[n].ok /\ calls[n].call \in {"inspect", "kill", "rm", "run"}

\* a remap has returned an error after a failed stop, a successful kill and a
\* failed rm, with no run issued
C30_Witness ==
    /\ recreate.pc = "returned"
    /\ recreate.result = "error"
    /\ Len(RecreationCalls) = 4
    /\ RecreationCalls[2] = Call("stop", FALSE)
    /\ RecreationCalls[3] = Call("kill", TRUE)
    /\ RecreationCalls[4] = Call("rm", FALSE)

\* the bindings of one container port among the published ones, as docker
\* records them for the launched container
PublishedOn(l, k) ==
    {HostBinding(b.HostIp, b.HostPort) : b \in {c \in l.Published : c.port = k}}

\* the bindings docker inspect reported for one container port
InspectedOn(o, k) == {o.PortBindings[k][n] : n \in DOMAIN o.PortBindings[k]}

\* C31: port-binding rewrite frame.  The bindings the replacement is launched
\* with equal the inspected ones on every container-port key other than the
\* remapped one (same host IPs, same host ports, as many bindings), and on the
\* remapped key there is exactly one binding, with empty host IP and the new
\* host port.
C31_BindingRewriteFrame ==
    launch.pc = "built" =>
        LET o == launch.info
            l == LaunchSpec(launch.createArgs)
        IN  /\ {b.port : b \in l.Published} = (DOMAIN o.PortBindings) \cup {launch.key}
            /\ \A k \in (DOMAIN o.PortBindings) \ {launch.key} :
                  /\ PublishedOn(l, k) = InspectedOn(o, k)
                  /\ Cardinality(PublishedOn(l, k)) = Len(o.PortBindings[k])
            /\ PublishedOn(l, launch.key) = {HostBinding("", launch.newHostPort)}

\* C32: processed marking around a remap.  A worker reaches the stop of a
\* remap only by a step that leaves the original id in processedContainers,
\* whether or not the sentinel label could be written, and the stop, kill and
\* rm are issued only from there; the step by which a successful remap returns
\* leaves the id of the replacement in processedContainers.
C32_ProcessedAroundRemap ==
    [][\A w \in Workers :
          /\ (workers[w].pc # "rm_stop" /\ workers'[w].pc = "rm_stop") =>
                /\ workers[w].pc = "rm_begin"
                /\ workers'[w].id \in processedContainers'
          /\ (workers[w].pc # "rm_rm" /\ workers'[w].pc = "rm_rm") =>
                workers[w].pc = "rm_stop"
          /\ (workers[w].pc = "rm_marknew" /\ workers'[w].pc # "rm_marknew") =>
                workers[w].newId \in processedContainers']_vars

\* a remap has stopped its container while the sentinel label could not be
\* written and the id is in the processed set
C32_Witness ==
    \E w \in Workers :
        /\ workers[w].pc = "rm_rm"
        /\ Exists(workers[w].id)
        /\ ~ docker[workers[w].id].label
        /\ workers[w].id \in processedContainers

\* the step by which worker w returns from a start handler that found its
\* container unprocessed and inspectable and scheduled no relocation
ReturnsUnrelocated(w) ==
    /\ workers[w].handler = "start"
    /\ workers[w].pc # "idle"
    /\ workers'[w].pc = "idle"
    /\ \/ /\ workers[w].pc = "hs_eval"
          /\ Exists(workers[w].id)
       \/ workers[w].branch \in {"inrange", "clear"}

\* C33: approval without relocation.  When the handler of a start event for
\* an unprocessed, inspectable container returns without having scheduled a
\* relocation, the container having port bindings or none, the id is in
\* processedContainers.
C33_ApprovedWithoutRelocation ==
    [][\A w \in Workers :
          ReturnsUnrelocated(w) => workers[w].id \in processedContainers']_vars

\* C34: malformed inspect data is an error, not a crash.  When a field the
\* remap reads is null in the inspect output, no stop, kill or rm is issued,
\* the process stays alive, and once the fields have been read the remap has
\* returned an error.
C34_MalformedInspectIsError ==
    recreate.missing # "none" =>
        /\ proc = "running"
        /\ \A n \in DOMAIN recreate.issued :
              recreate.issued[n].call \notin {"stop", "kill", "rm"}
        /\ recreate.pc \notin {"inspect", "extract_label", "extract_again", "read_fields"} =>
              recreate.pc = "returned" /\ recreate.result = "error"

\* C35: no lost processed mark.  An id that is in processedContainers when a
\* refresh performs its swap, whether it was there at the snapshot or was
\* added since (by addDynamicPortLabel, by the label path of
\* isContainerProcessed, by the new-id insertion of a remap, or by the refresh
\* itself), and that is in the listing of that refresh, is in
\* processedContainers after the swap.
C35_NoLostProcessedMark ==
    [][\A w \in Workers :
          (workers[w].pc = "rf_swap" /\ workers'[w].pc # "rf_swap") =>
              \A i \in processedContainers \cap DOMAIN workers[w].newContainers :
                  i \in processedContainers']_vars

\* C36: no stale overwrite.  A refresh performs its swap only if no refresh
\* that listed the runtime after it has installed its maps already, and it
\* installs no id that a stop handler deleted from the Store after its listing
\* was taken.
C36_NoStaleOverwrite ==
    [][\A w \in Workers :
          (hist.on /\ workers[w].pc = "rf_swap" /\ workers'[w].pc # "rf_swap") =>
              /\ w \notin hist.stale
              /\ hist.deleted[w] \cap DOMAIN workers[w].newContainers = {}]_vars

\* C37: allocated ports are pairwise distinct while pending.  Two ports the
\* pre-plan of one descriptor has allocated, each of them a candidate the
\* availability check accepts, are different ports; none of them is in the
\* Store yet.
C37_PendingPortsDistinct ==
    \A j, k \in DOMAIN compose.remappings :
        (/\ j # k
         /\ isPortAvailable(compose.remappings[j], compose.busy)
         /\ isPortAvailable(compose.remappings[k], compose.busy)) =>
            compose.remappings[j] # compose.remappings[k]

\* C38: single reconciler.  In web mode the process has exactly one Store
\* with one event subscription, and no start event has been dispatched to more
\* than one start-handler worker.
C38_SingleReconciler ==
    main.pc = "serving" =>
        /\ Len(main.stores) = 1
        /\ \A id \in MainIds : main.dispatched[id] <= 1

\* C39: the configured range is the range used.  Every range an in-range test
\* or an allocation has used is the one given by --min and --max, for events
\* handled right after startup and for the Store of the web interface too.
C39_ConfiguredRangeUsed ==
    \A r \in main.used : r = <<main.minPort, main.maxPort>>

\* C40: compose mode does not recreate what it launches.  In compose mode no
\* stop, kill, rm or run is issued against a container started from the
\* descriptor, and when the subcommand has returned every such container is
\* running on the host port declared for it.
C40_ComposeLeavesLaunched ==
    main.mode = "compose" =>
        \A id \in MainIds :
            main.cts[id].declared # 0 =>
                /\ id \notin main.issued
                /\ main.pc = "exited" =>
                      /\ main.cts[id].state = "running"
                      /\ main.cts[id].hostPort = main.cts[id].declared

====
